---- MODULE Spec2Model ----
(***************************************************************************)
(* A model of the RNES emulator core: the PPU dot state machine            *)
(* (src/src/ppu.rs), the CPU bus (src/src/bus.rs), the cartridge mappers   *)
(* (src/src/cartridge.rs), the frame loop (src/src/emulator.rs) and the    *)
(* two-buffer frame hand-off (src/src/ui/frame_buffer.rs).                 *)
(*                                                                         *)
(* Zero-initialised byte arrays (RAM, VRAM, OAM, palette RAM, PRG/CHR RAM) *)
(* are represented by their non-zero cells: a function whose domain is the *)
(* set of indices that hold a non-zero byte.                               *)
(***************************************************************************)
EXTENDS Integers, Sequences, FiniteSets, TLC

\* ------------------------------------------------------------------------
\* Bit operations on naturals (u8 / u16 values of the source)
\* ------------------------------------------------------------------------
RECURSIVE BitAnd(_, _)
BitAnd(a, b) ==
    IF a = 0 \/ b = 0 THEN 0
    ELSE (a % 2) * (b % 2) + 2 * BitAnd(a \div 2, b \div 2)

RECURSIVE BitOr(_, _)
BitOr(a, b) ==
    IF a = 0 THEN b
    ELSE IF b = 0 THEN a
    ELSE (IF (a % 2) + (b % 2) > 0 THEN 1 ELSE 0) + 2 * BitOr(a \div 2, b \div 2)

RECURSIVE BitXor(_, _)
BitXor(a, b) ==
    IF a = 0 THEN b
    ELSE IF b = 0 THEN a
    ELSE ((a + b) % 2) + 2 * BitXor(a \div 2, b \div 2)

\* !m on a u8 / u16
Not8(m) == 255 - m
Not16(m) == 65535 - m

\* a zero-initialised array, by its non-zero cells
ZeroMem == [i \in {} |-> 0]
Get(mem, i) == IF i \in DOMAIN mem THEN mem[i] ELSE 0
Put(mem, i, v) ==
    IF v = 0 THEN [j \in (DOMAIN mem) \ {i} |-> mem[j]]
    ELSE [j \in (DOMAIN mem) \cup {i} |-> IF j = i THEN v ELSE mem[j]]

\* ------------------------------------------------------------------------
\* Program constants
\* ------------------------------------------------------------------------
SCANLINE_DOTS == 256
SCANLINE_END_CYCLE == 340
FrameCycles == 29781

\* StatusFlags / ContolFlags / MaskFlags
VBlankFlag == 128
SpriteZeroHit == 64
SpriteOverflow == 32
GenerateInterrupt == 128
ShowEdgeBG == 2
ShowEdgeSprites == 4
ShowBackground == 8
ShowSprites == 16
SCREEN_WIDTH == 256
SCREEN_HEIGHT == 240

\* ------------------------------------------------------------------------
\* Bounds of the model
\* ------------------------------------------------------------------------
\* PPUCTRL bit 7 may be enabled during the first MaxEnableDot dots after power-on
MaxEnableDot == 2

\* ------------------------------------------------------------------------
\* State
\* ------------------------------------------------------------------------
VARIABLES
    bus,          \* Bus: ram, ppu, cartridge, input, irq, nmi_request, extra_cycles
    emu,          \* Emulator::run: its position and locals, and the DoubleBuffer
    ui,           \* Ui::run, the presenter thread: its position and the slice it holds
    watch         \* observer: dot counters and event counts (not program state)

vars == <<bus, emu, ui, watch>>

\* The screen coordinates whose back_buffer / frame_buffer entries the model
\* keeps: the first pixel, the first pixel right of the left edge columns, and
\* the last pixel. Every other entry is written and copied by the same code
\* and read by nothing the model covers.
TrackedPixels == {0, 8, SCREEN_WIDTH * SCREEN_HEIGHT - 1}

\* The coordinates whose background_priority entry is kept: an entry is read
\* (sprite-zero hit, sprite priority) without having been written in the same
\* dot only in the eight left edge columns, or with the background disabled,
\* when what is read decides a back_buffer entry only.
PriorityKept(coor) == coor % SCREEN_WIDTH < 8 \/ coor \in TrackedPixels

\* Color: NES_COLOR_PALETTE[i] as the least index of an equal entry; the
\* entries 0x0D..0x0F, 0x1D..0x1F, 0x2E, 0x2F, 0x3E, 0x3F are Color::BLACK and
\* entry 0x30 equals entry 0x20
BLACK == 13
NES_COLOR_PALETTE(i) ==
    IF i \in {13, 14, 15, 29, 30, 31, 46, 47, 62, 63} THEN BLACK
    ELSE IF i = 48 THEN 32 ELSE i

\* PPU::new with PPURegisters::new
PPUNew ==
    [ control |-> 0, mask |-> 0, status |-> 0, oam_addr |-> 0, oam_data |-> 0,
      scroll_x |-> 0, scroll_y |-> 0, ppu_addr |-> 0, ppu_data |-> 0,
      address_latch |-> FALSE, fine_x |-> 0, vram_addr |-> 0,
      tmp_vram_addr |-> 0, data_buffer |-> 0,
      vram |-> ZeroMem, palette_ram |-> ZeroMem, oam_ram |-> ZeroMem,
      scanline |-> 0, scanline_cycle |-> 0, current_phase |-> "PreRender",
      even_frame |-> TRUE, line_sprites |-> <<>>,
      back_buffer |-> [c \in TrackedPixels |-> BLACK],
      frame_buffer |-> [c \in TrackedPixels |-> BLACK],
      background_priority |-> {} ]

get_mask_flag(p, flag) == BitAnd(p.mask, flag) # 0
get_status_flag(p, flag) == BitAnd(p.status, flag) # 0
get_sprite_height(p) == IF BitAnd(p.control, 32) # 0 THEN 16 ELSE 8

even_frame_adjustment(p) ==
    IF ~p.even_frame /\ get_mask_flag(p, ShowBackground) /\ get_mask_flag(p, ShowSprites)
    THEN 1 ELSE 0

\* the first n elements of a set of sprite indices, in ascending order
RECURSIVE FirstSprites(_, _)
FirstSprites(set, n) ==
    IF set = {} \/ n = 0 THEN <<>>
    ELSE LET Least(m) == <<m>> \o FirstSprites(set \ {m}, n - 1)
         IN Least(CHOOSE x \in set : \A y \in set : x <= y)

\* mutant of EvalSprites: the range test admits diff = sprite height
EvalSpritesInclusive(p, first) ==
    LET Found(on_line) ==
            [line_sprites |-> FirstSprites(on_line, 8),
             overflow |-> Cardinality(on_line) > 8]
    IN Found({i \in first..63 :
                LET diff == p.scanline - Get(p.oam_ram, i * 4)
                IN 0 <= diff /\ diff <= get_sprite_height(p)})

\* PPU::step, sprite evaluation at the end of a visible scanline: the loop
\* `for i in (oam_addr/4)..64` with its early break on the ninth match
\* collects the first eight sprites on the scanline
EvalSprites(p, first) ==
    LET Found(on_line) ==
            [line_sprites |-> FirstSprites(on_line, 8),
             overflow |-> Cardinality(on_line) > 8]
    IN Found({i \in first..63 :
                LET diff == p.scanline - Get(p.oam_ram, i * 4)
                IN 0 <= diff /\ diff < get_sprite_height(p)})

\* PPU::step, PreRender phase
StepPreRender(p) ==
    IF p.scanline_cycle = 1
    THEN [p EXCEPT !.status = BitAnd(@, Not8(BitOr(VBlankFlag, SpriteZeroHit)))]
    ELSE IF p.scanline_cycle = SCANLINE_DOTS + 2
            /\ get_mask_flag(p, ShowBackground) /\ get_mask_flag(p, ShowSprites)
    THEN [p EXCEPT !.vram_addr =
            BitOr(BitAnd(@, Not16(1055)), BitAnd(p.tmp_vram_addr, 1055))]
    ELSE IF p.scanline_cycle \in 281..304
            /\ get_mask_flag(p, ShowBackground) /\ get_mask_flag(p, ShowSprites)
    THEN [p EXCEPT !.vram_addr =
            BitOr(BitAnd(@, Not16(31712)), BitAnd(p.tmp_vram_addr, 31712))]
    ELSE IF p.scanline_cycle >= SCANLINE_END_CYCLE - even_frame_adjustment(p)
    THEN [p EXCEPT !.current_phase = "Render", !.scanline_cycle = 0, !.scanline = 0]
    ELSE p

\* ------------------------------------------------------------------------
\* Cartridge and mappers
\* ------------------------------------------------------------------------
\* the bytes of the ROM image: byte i of the PRG data and of the CHR data
PrgByte(i) == ((i \div 16384) * 16 + (i % 16) + 1) % 256
ChrByte(i) == ((i \div 4096) * 8 + (i % 8) + 1) % 256

\* a read whose index is outside its array (the thread panics)
OutOfBounds == -1

\* Mapper::None
MapperNone == [kind |-> "None"]

\* Cartridge::from_bytes: the fields the mappers use; prg_len / chr_len are
\* the lengths of the prg_rom / chr_rom vectors
Cartridge(prg_banks, chr_banks, mirror_mode) ==
    [ prg_banks |-> prg_banks, chr_banks |-> chr_banks,
      prg_len |-> prg_banks * 16 * 1024, chr_len |-> chr_banks * 8 * 1024,
      mirror_mode |-> mirror_mode, prg_ram |-> ZeroMem, chr_ram |-> ZeroMem,
      prg_rom |-> <<>> ]

\* byte i of cart.prg_rom: the bytes listed in prg_rom (index :> byte), and
\* PrgByte(i) elsewhere
PrgAt(cart, i) == IF i \in DOMAIN cart.prg_rom THEN cart.prg_rom[i] ELSE PrgByte(i)

\* MMC1Cartridge::apply_mirroring
apply_mirroring(m) ==
    LET mode == CASE BitAnd(m.control, 3) = 0 -> "SingleScreenA"
                  [] BitAnd(m.control, 3) = 1 -> "SingleScreenB"
                  [] BitAnd(m.control, 3) = 2 -> "Vertical"
                  [] BitAnd(m.control, 3) = 3 -> "Horizontal"
    IN [m EXCEPT !.cart.mirror_mode = mode]

\* MMC1Cartridge::apply_banks (prg_bank_count >= 1 in every cartridge modelled)
apply_banks(m) ==
    LET chr_mode == BitAnd(m.control \div 16, 1)
        chr_off == IF m.cart.chr_banks = 0 THEN <<0, 0>>
                   ELSE IF chr_mode = 0
                   THEN LET bank == BitAnd(m.chr_banks[1], 30)
                        IN <<bank * 4096, (bank + 1) * 4096>>
                   ELSE <<m.chr_banks[1] * 4096, m.chr_banks[2] * 4096>>
        prg_mode == BitAnd(m.control \div 4, 3)
        prg_bank_count == m.cart.prg_len \div 16384
        prg_off == CASE prg_mode \in {0, 1} ->
                          LET bank == BitAnd(m.prg_bank, 14) % prg_bank_count
                          IN <<bank * 16384, (bank + 1) * 16384>>
                     [] prg_mode = 2 ->
                          <<(prg_bank_count - 1) * 16384,
                            (m.prg_bank % prg_bank_count) * 16384>>
                     [] prg_mode = 3 ->
                          <<(m.prg_bank % prg_bank_count) * 16384,
                            (prg_bank_count - 1) * 16384>>
    IN [m EXCEPT !.chr_bank_offsets = chr_off, !.prg_bank_offsets = prg_off]

\* Mapper::with_cart for mapper_id 0
Mapper0(cart) == [kind |-> "Mapper0", cart |-> cart]

\* Mapper::with_cart for mapper_id 1: MMC1Cartridge::with_cartridge and reset
Mapper1(cart) ==
    apply_banks(apply_mirroring(
        [ kind |-> "Mapper1", cart |-> cart, shift_reg |-> 16, control |-> 12,
          chr_banks |-> <<0, 0>>, prg_bank |-> 0, shift_count |-> 0,
          prg_bank_offsets |-> <<0, 0>>, chr_bank_offsets |-> <<0, 0>> ]))

\* Mapper::get_mirror_mode
get_mirror_mode(m) ==
    IF m.kind = "None" THEN "Horizontal" ELSE m.cart.mirror_mode

\* the CHR index a Mapper1 pattern-table access uses (ppu_read / ppu_write)
Mmc1ChrOffset(m, addr) ==
    LET chr_mode == BitAnd(m.control \div 16, 1)
        bank == IF addr < 4096 THEN m.chr_banks[1] ELSE m.chr_banks[2]
    IN IF m.cart.chr_banks = 0
       THEN IF chr_mode = 0 THEN addr ELSE bank * 4096 + BitAnd(addr, 4095)
       ELSE IF chr_mode = 0
            THEN BitAnd(m.chr_banks[1], 30) * 4096 + BitAnd(addr, 8191)
            ELSE bank * 4096 + BitAnd(addr, 4095)

\* Mapper::ppu_read
ppu_read(m, addr) ==
    IF m.kind = "None" \/ addr >= 8192 THEN 0
    ELSE LET idx == IF m.kind = "Mapper0" THEN addr ELSE Mmc1ChrOffset(m, addr)
         IN IF m.cart.chr_banks # 0
            THEN IF idx < m.cart.chr_len THEN ChrByte(idx) ELSE OutOfBounds
            ELSE IF idx < 8192 THEN Get(m.cart.chr_ram, idx) ELSE OutOfBounds

\* Mapper::ppu_write; the result's panic tells an index out of bounds
ppu_write(m, addr, val) ==
    IF m.kind = "None" \/ addr >= 8192 \/ m.cart.chr_banks # 0
    THEN [mapper |-> m, panic |-> FALSE]
    ELSE LET idx == IF m.kind = "Mapper0" THEN addr ELSE Mmc1ChrOffset(m, addr)
         IN IF idx < 8192
            THEN [mapper |-> [m EXCEPT !.cart.chr_ram = Put(@, idx, val)], panic |-> FALSE]
            ELSE [mapper |-> m, panic |-> TRUE]

\* Mapper::cpu_read
cpu_read(m, addr) ==
    IF m.kind = "None" \/ addr < 24576 THEN 0
    ELSE IF addr < 32768 THEN Get(m.cart.prg_ram, addr - 24576)
    ELSE LET idx == IF m.kind = "Mapper0"
                    THEN IF m.cart.prg_banks = 1 THEN BitAnd(addr, 16383)
                         ELSE addr - 32768
                    ELSE IF addr < 49152
                         THEN m.prg_bank_offsets[1] + (addr - 32768)
                         ELSE m.prg_bank_offsets[2] + (addr - 49152)
         IN IF idx < m.cart.prg_len THEN PrgAt(m.cart, idx) ELSE OutOfBounds

\* mutant of Mmc1RegisterWrite: the PRG bank register keeps all five bits
Mmc1RegisterWriteWide(m, addr, val) ==
    IF BitAnd(val, 128) # 0
    THEN apply_banks([m EXCEPT !.shift_reg = 16, !.control = BitOr(@, 12),
                               !.shift_count = 0])
    ELSE LET sr == BitOr(m.shift_reg \div 2, BitAnd(val, 1) * 16)
             cnt == m.shift_count + 1
             reg == BitAnd(addr \div 8192, 3)
             m1 == [m EXCEPT !.shift_reg = sr, !.shift_count = cnt]
         IN IF cnt = 5
            THEN LET m2 == CASE reg = 0 ->
                                 apply_mirroring([m1 EXCEPT !.control = BitAnd(sr, 31)])
                             [] reg = 1 -> [m1 EXCEPT !.chr_banks[1] = BitAnd(sr, 31)]
                             [] reg = 2 -> [m1 EXCEPT !.chr_banks[2] = BitAnd(sr, 31)]
                             [] reg = 3 -> [m1 EXCEPT !.prg_bank = BitAnd(sr, 31)]
                 IN apply_banks([m2 EXCEPT !.shift_reg = 16, !.shift_count = 0])
            ELSE m1

\* mutant of Mmc1RegisterWrite: a bit-7 write keeps the bits shifted in so far
Mmc1RegisterWriteKeepsBits(m, addr, val) ==
    IF BitAnd(val, 128) # 0
    THEN apply_banks([m EXCEPT !.control = BitOr(@, 12)])
    ELSE LET sr == BitOr(m.shift_reg \div 2, BitAnd(val, 1) * 16)
             cnt == m.shift_count + 1
             reg == BitAnd(addr \div 8192, 3)
             m1 == [m EXCEPT !.shift_reg = sr, !.shift_count = cnt]
         IN IF cnt = 5
            THEN LET m2 == CASE reg = 0 ->
                                 apply_mirroring([m1 EXCEPT !.control = BitAnd(sr, 31)])
                             [] reg = 1 -> [m1 EXCEPT !.chr_banks[1] = BitAnd(sr, 31)]
                             [] reg = 2 -> [m1 EXCEPT !.chr_banks[2] = BitAnd(sr, 31)]
                             [] reg = 3 -> [m1 EXCEPT !.prg_bank = BitAnd(sr, 15)]
                 IN apply_banks([m2 EXCEPT !.shift_reg = 16, !.shift_count = 0])
            ELSE m1

\* Mapper::cpu_write, Mapper1 arm, addr in 0x8000..0xFFFF
Mmc1RegisterWrite(m, addr, val) ==
    IF BitAnd(val, 128) # 0
    THEN apply_banks([m EXCEPT !.shift_reg = 16, !.control = BitOr(@, 12),
                               !.shift_count = 0])
    ELSE LET sr == BitOr(m.shift_reg \div 2, BitAnd(val, 1) * 16)
             cnt == m.shift_count + 1
             reg == BitAnd(addr \div 8192, 3)
             m1 == [m EXCEPT !.shift_reg = sr, !.shift_count = cnt]
         IN IF cnt = 5
            THEN LET m2 == CASE reg = 0 ->
                                 apply_mirroring([m1 EXCEPT !.control = BitAnd(sr, 31)])
                             [] reg = 1 -> [m1 EXCEPT !.chr_banks[1] = BitAnd(sr, 31)]
                             [] reg = 2 -> [m1 EXCEPT !.chr_banks[2] = BitAnd(sr, 31)]
                             [] reg = 3 -> [m1 EXCEPT !.prg_bank = BitAnd(sr, 15)]
                 IN apply_banks([m2 EXCEPT !.shift_reg = 16, !.shift_count = 0])
            ELSE m1

\* Mapper::cpu_write
cpu_write(m, addr, val) ==
    IF m.kind = "None" \/ addr < 24576 THEN m
    ELSE IF addr < 32768 THEN [m EXCEPT !.cart.prg_ram = Put(@, addr - 24576, val)]
    ELSE IF m.kind = "Mapper0" THEN m
    ELSE Mmc1RegisterWrite(m, addr, val)

\* ------------------------------------------------------------------------
\* PPU memory and registers
\* ------------------------------------------------------------------------
\* mutant of mirror_vram_addr: the Vertical and Horizontal arms are exchanged
mirror_vram_addr_swapped(m, addr) ==
    LET offset == BitAnd(addr, 4095)
        nt_idx == offset \div 1024
        inner_offset == offset % 1024
        mode == get_mirror_mode(m)
    IN CASE mode = "Vertical" -> (nt_idx \div 2) * 1024 + inner_offset
         [] mode = "Horizontal" -> (nt_idx % 2) * 1024 + inner_offset
         [] mode = "SingleScreenA" -> inner_offset
         [] mode = "SingleScreenB" -> 1024 + inner_offset

\* PPU::mirror_vram_addr
mirror_vram_addr(m, addr) ==
    LET offset == BitAnd(addr, 4095)
        nt_idx == offset \div 1024
        inner_offset == offset % 1024
        mode == get_mirror_mode(m)
    IN CASE mode = "Vertical" -> (nt_idx % 2) * 1024 + inner_offset
         [] mode = "Horizontal" -> (nt_idx \div 2) * 1024 + inner_offset
         [] mode = "SingleScreenA" -> inner_offset
         [] mode = "SingleScreenB" -> 1024 + inner_offset

\* mutant of PaletteIndex: entries 0x10/0x14/0x18/0x1C are cells of their own
PaletteIndexNoAlias(addr) == BitAnd(addr, 31)

\* the palette_ram index of PPU::read / PPU::write for 0x3F00..0x3FFF
PaletteIndex(addr) ==
    LET mirrored == BitAnd(addr, 31)
    IN IF mirrored >= 16 /\ mirrored % 4 = 0 THEN mirrored - 16 ELSE mirrored

\* PPU::read
PPURead(p, m, addr0) ==
    LET addr == BitAnd(addr0, 16383)
    IN IF addr <= 8191 THEN ppu_read(m, addr)
       ELSE IF addr <= 16127 THEN Get(p.vram, mirror_vram_addr(m, addr))
       ELSE Get(p.palette_ram, PaletteIndex(addr))

\* PPU::write
PPUWrite(p, m, addr0, val) ==
    LET addr == BitAnd(addr0, 16383)
    IN IF addr <= 8191
       THEN LET w == ppu_write(m, addr, val)
            IN [ppu |-> p, mapper |-> w.mapper, panic |-> w.panic]
       ELSE IF addr <= 16127
       THEN [ppu |-> [p EXCEPT !.vram = Put(@, mirror_vram_addr(m, addr), val)],
             mapper |-> m, panic |-> FALSE]
       ELSE [ppu |-> [p EXCEPT !.palette_ram = Put(@, PaletteIndex(addr), val)],
             mapper |-> m, panic |-> FALSE]

\* the PPUDATA address increment (control bit 2), u16 wrapping_add
NextPpuAddr(p) ==
    IF BitAnd(p.control, 4) # 0 THEN (p.ppu_addr + 32) % 65536
    ELSE (p.ppu_addr + 1) % 65536

\* mutant of StatusRead: the status is returned after its bits were cleared
StatusReadAfterClear(p) ==
    [val |-> BitAnd(p.status, Not8(224)),
     ppu |-> [p EXCEPT !.status = BitAnd(@, Not8(224)), !.address_latch = FALSE],
     panic |-> FALSE]

\* PPU::read_register, arm 0x2002 (PPUSTATUS)
StatusRead(p) ==
    [val |-> p.status,
     ppu |-> [p EXCEPT !.status = BitAnd(@, Not8(224)), !.address_latch = FALSE],
     panic |-> FALSE]

\* PPU::read_register
ReadRegister(p, m, addr) ==
    CASE addr = 8192 -> [val |-> p.control, ppu |-> p, panic |-> FALSE]
      [] addr = 8194 -> StatusRead(p)
      [] addr = 8196 -> [val |-> Get(p.oam_ram, p.oam_addr), ppu |-> p, panic |-> FALSE]
      [] addr = 8198 -> [val |-> p.ppu_addr \div 256, ppu |-> p, panic |-> FALSE]
      [] addr = 8199 ->
            LET fetched == PPURead(p, m, p.ppu_addr)
            IN IF fetched = OutOfBounds
               THEN [val |-> 0, ppu |-> p, panic |-> TRUE]
               ELSE [val |-> IF p.ppu_addr >= 16128 THEN fetched ELSE p.data_buffer,
                     ppu |-> [p EXCEPT !.data_buffer = fetched, !.ppu_addr = NextPpuAddr(p)],
                     panic |-> FALSE]
      [] OTHER -> [val |-> 0, ppu |-> p, panic |-> FALSE]

\* mutant of WritePpuAddr: the first write copies t into v as the second does
WritePpuAddrCopiesTwice(p, val) ==
    IF ~p.address_latch
    THEN LET t == BitOr(val * 256, BitAnd(p.tmp_vram_addr, 255))
         IN [p EXCEPT !.tmp_vram_addr = t, !.ppu_addr = t, !.vram_addr = t,
                      !.address_latch = TRUE]
    ELSE LET t == BitOr(BitAnd(p.tmp_vram_addr, 65280), val)
         IN [p EXCEPT !.tmp_vram_addr = t, !.ppu_addr = t, !.vram_addr = t,
                      !.address_latch = FALSE]

\* PPU::write_register, arm 0x2006 (PPUADDR)
WritePpuAddr(p, val) ==
    IF ~p.address_latch
    THEN LET t == BitOr(val * 256, BitAnd(p.tmp_vram_addr, 255))
         IN [p EXCEPT !.tmp_vram_addr = t, !.ppu_addr = t, !.address_latch = TRUE]
    ELSE LET t == BitOr(BitAnd(p.tmp_vram_addr, 65280), val)
         IN [p EXCEPT !.tmp_vram_addr = t, !.ppu_addr = t, !.vram_addr = t,
                      !.address_latch = FALSE]

\* PPU::write_register
WriteRegister(p, m, addr, val) ==
    LET same(q) == [ppu |-> q, mapper |-> m, panic |-> FALSE]
    IN CASE addr = 8192 ->
              same([p EXCEPT !.control = val,
                             !.tmp_vram_addr = BitOr(BitAnd(@, 62463), BitAnd(val, 3) * 1024)])
         [] addr = 8193 -> same([p EXCEPT !.mask = val])
         [] addr = 8194 ->
              same([p EXCEPT !.status = BitAnd(@, 127), !.address_latch = FALSE])
         [] addr = 8195 -> same([p EXCEPT !.oam_addr = val])
         [] addr = 8196 ->
              same([p EXCEPT !.oam_data = val,
                             !.oam_ram = Put(@, p.oam_addr, val),
                             !.oam_addr = (@ + 1) % 256])
         [] addr = 8197 ->
              IF ~p.address_latch
              THEN same([p EXCEPT !.scroll_x = val, !.fine_x = BitAnd(val, 7),
                                  !.tmp_vram_addr = BitOr(BitAnd(@, 65504), val \div 8),
                                  !.address_latch = TRUE])
              ELSE same([p EXCEPT !.scroll_y = val,
                                  !.tmp_vram_addr =
                                      BitOr(BitAnd(BitOr(BitAnd(@, 36863), BitAnd(val, 7) * 4096),
                                                   64543),
                                            BitAnd(val, 248) * 4),
                                  !.address_latch = FALSE])
         [] addr = 8198 -> same(WritePpuAddr(p, val))
         [] addr = 8199 ->
              LET w == PPUWrite([p EXCEPT !.ppu_data = val], m, p.ppu_addr, val)
              IN [ppu |-> [w.ppu EXCEPT !.ppu_addr = NextPpuAddr(p)],
                  mapper |-> w.mapper, panic |-> w.panic]
         [] OTHER -> same(p)

\* ------------------------------------------------------------------------
\* PPU::step, the phases that read PPU memory
\* ------------------------------------------------------------------------
get_bg_page(p) == IF BitAnd(p.control, 16) = 0 THEN 0 ELSE 4096
get_sprite_page(p) == IF BitAnd(p.control, 8) # 0 THEN 4096 ELSE 0

\* (byte >> n) & 1
BitOf(byte, n) == (byte \div (2 ^ n)) % 2

\* PPU::fetch_background_color
fetch_background_color(p, color_idx, palette_idx) ==
    IF color_idx = 0
    THEN NES_COLOR_PALETTE(BitAnd(Get(p.palette_ram, 0), 63))
    ELSE NES_COLOR_PALETTE(BitAnd(Get(p.palette_ram, palette_idx * 4 + 1 + (color_idx - 1)), 63))

\* PPU::fetch_sprite_color
fetch_sprite_color(p, color_idx, palette_idx) ==
    NES_COLOR_PALETTE(BitAnd(Get(p.palette_ram, 17 + palette_idx * 4 + (color_idx - 1)), 63))

\* PPU::step, Render phase, dots 1..256: the background pixel of the dot from
\* the tile, the two pattern bytes and the attribute byte v addresses; panic
\* tells a pattern read outside the CHR array
BackgroundPixel(p, m, x_fine) ==
    LET v == p.vram_addr
        Fetched(tile) ==
            LET addr == tile * 16 + BitAnd(v \div 4096, 7) + get_bg_page(p)
                attr_addr == 9152 + BitAnd(v, 3072) + BitAnd(v \div 16, 56) + BitAnd(v \div 4, 7)
                shift == BitOr(BitAnd(v \div 16, 4), BitAnd(v, 2))
                Planes(lo, hi, attribute) ==
                    IF lo = OutOfBounds \/ hi = OutOfBounds
                    THEN [panic |-> TRUE, color |-> 0, palette_idx |-> 0]
                    ELSE [panic |-> FALSE,
                          color |-> BitOf(lo, 7 - x_fine) + 2 * BitOf(hi, 7 - x_fine),
                          palette_idx |-> (attribute \div (2 ^ shift)) % 4]
            IN Planes(PPURead(p, m, addr), PPURead(p, m, addr + 8), PPURead(p, m, attr_addr))
    IN Fetched(PPURead(p, m, 8192 + BitAnd(v, 4095)))

\* no background pixel is computed at the dot
NoBackgroundPixel == [panic |-> FALSE, color |-> 0, palette_idx |-> 0]

\* one iteration of the loop over line_sprites at pixel (x, y): whether the
\* sprite covers x, whether y - sprite_y is negative (the u32 subtraction
\* overflows), whether a pattern read leaves the CHR array, and the colour
SpritePixel(p, m, idx, x, y) ==
    LET sprite_x == Get(p.oam_ram, idx * 4 + 3)
        sprite_y == Get(p.oam_ram, idx * 4) + 1
        tile == Get(p.oam_ram, idx * 4 + 1)
        attribute == Get(p.oam_ram, idx * 4 + 2)
        sprite_height == get_sprite_height(p)
        x_shift == IF BitAnd(attribute, 64) = 0
                   THEN 7 - ((x - sprite_x) % 8) ELSE (x - sprite_x) % 8
        \* wrapping_sub in a build without overflow checks: 2^32 is a
        \* multiple of the sprite height
        wrapped == (y - sprite_y) % sprite_height
        y_offset == IF BitAnd(attribute, 128) # 0
                    THEN (sprite_height - 1) - wrapped ELSE wrapped
        addr == IF sprite_height = 8
                THEN tile * 16 + y_offset + get_sprite_page(p)
                ELSE ((tile - (tile % 2)) + (IF y_offset >= 8 THEN 1 ELSE 0)) * 16
                         + (y_offset % 8) + (tile % 2) * 4096
        Planes(lo, hi) ==
            [covers |-> TRUE, underflow |-> y < sprite_y,
             panic |-> lo = OutOfBounds \/ hi = OutOfBounds,
             color |-> IF lo = OutOfBounds \/ hi = OutOfBounds THEN 0
                       ELSE BitOf(lo, x_shift) + 2 * BitOf(hi, x_shift),
             palette_idx |-> BitAnd(attribute, 3),
             foreground |-> BitAnd(attribute, 32) = 0, idx |-> idx]
    IN IF x < sprite_x \/ x >= sprite_x + 8
       THEN [covers |-> FALSE, underflow |-> FALSE, panic |-> FALSE, color |-> 0,
             palette_idx |-> 0, foreground |-> FALSE, idx |-> idx]
       ELSE Planes(PPURead(p, m, addr), PPURead(p, m, addr + 8))

\* the thread aborts in the iteration: an overflow in a build with overflow
\* checks, or an index out of bounds
SpriteAborts(s, overflow_checks) == s.covers /\ ((overflow_checks /\ s.underflow) \/ s.panic)

\* no sprite pixel at the dot
NoSpritePixel ==
    [covers |-> FALSE, underflow |-> FALSE, panic |-> FALSE, color |-> 0,
     palette_idx |-> 0, foreground |-> FALSE, idx |-> -1]

\* the loop `for idx in self.line_sprites` at pixel (x, y): the positions of
\* line_sprites the loop consults before its break, and the sprite it breaks
\* at (the first that covers x with a colour other than 0)
SpriteLoop(p, m, x, y, overflow_checks) ==
    LET n == Len(p.line_sprites)
        Scanned(pix) ==
            LET stops == {k \in 1..n : SpriteAborts(pix[k], overflow_checks)
                                          \/ (pix[k].covers /\ pix[k].color # 0)}
                last == IF stops = {} THEN n
                        ELSE CHOOSE k \in stops : \A j \in stops : k <= j
            IN [consulted |-> {k \in 1..last : pix[k].covers},
                panic |-> stops # {} /\ SpriteAborts(pix[last], overflow_checks),
                pixel |-> IF stops = {} \/ SpriteAborts(pix[last], overflow_checks)
                          THEN NoSpritePixel ELSE pix[last]]
    IN Scanned([k \in 1..n |-> SpritePixel(p, m, p.line_sprites[k], x, y)])

\* the sprites (OAM indices) the loop consults at the dot p is about to step
ConsultedSprites(p, m, overflow_checks) ==
    LET x == p.scanline_cycle - 1
    IN IF p.current_phase = "Render" /\ p.scanline_cycle > 0
          /\ p.scanline_cycle <= SCANLINE_DOTS
          /\ get_mask_flag(p, ShowSprites)
          /\ (get_mask_flag(p, ShowEdgeSprites) \/ x >= 8)
       THEN {p.line_sprites[k] :
                k \in SpriteLoop(p, m, x, p.scanline, overflow_checks).consulted}
       ELSE {}

\* the sprite half of a dot: the sprite-zero hit and the back_buffer entry.
\* bg_priority is background_priority[screen_coor] as the background half
\* left it.
SpriteDot(p, s, screen_coor, bg_priority) ==
    LET hit == /\ ~get_status_flag(p, SpriteZeroHit)
               /\ get_mask_flag(p, ShowBackground)
               /\ s.idx = 0 /\ bg_priority /\ s.color # 0
        p1 == IF hit THEN [p EXCEPT !.status = BitOr(@, SpriteZeroHit)] ELSE p
    IN IF screen_coor \notin TrackedPixels THEN p1
       ELSE IF (~bg_priority /\ s.color # 0) \/ (bg_priority /\ s.color # 0 /\ s.foreground)
       THEN [p1 EXCEPT !.back_buffer[screen_coor] =
                            fetch_sprite_color(p, s.color, s.palette_idx)]
       ELSE IF ~bg_priority /\ s.color = 0
       THEN [p1 EXCEPT !.back_buffer[screen_coor] = fetch_background_color(p, 0, 0)]
       ELSE p1

\* the background half of a dot: background_priority, the back_buffer entry
\* and the coarse-X increment of v
BackgroundDot(p, bg, drawn, screen_coor, x_fine) ==
    LET p1 == IF ~drawn THEN p
              ELSE LET q == IF ~PriorityKept(screen_coor) THEN p
                            ELSE IF bg.color # 0
                            THEN [p EXCEPT !.background_priority = @ \cup {screen_coor}]
                            ELSE [p EXCEPT !.background_priority = @ \ {screen_coor}]
                   IN IF screen_coor \in TrackedPixels
                      THEN [q EXCEPT !.back_buffer[screen_coor] =
                                fetch_background_color(p, bg.color, bg.palette_idx)]
                      ELSE q
    IN IF x_fine # 7 THEN p1
       ELSE IF BitAnd(p.vram_addr, 31) = 31
       THEN [p1 EXCEPT !.vram_addr = BitXor(BitAnd(@, Not16(31)), 1024)]
       ELSE [p1 EXCEPT !.vram_addr = @ + 1]

\* PPU::step, Render phase, dots 1..256. overflow_checks tells a build that
\* aborts on integer overflow (`scroll_x + x as u8`, `y - sprite_y`); without
\* the checks the operations wrap.
RenderDot(p, m, overflow_checks) ==
    LET x == p.scanline_cycle - 1
        y == p.scanline
        screen_coor == y * SCREEN_WIDTH + x
        show_bg == get_mask_flag(p, ShowBackground)
        drawn == show_bg /\ (get_mask_flag(p, ShowEdgeBG) \/ x >= 8)
        x_fine == ((p.scroll_x + (x % 256)) % 256) % 8
        sprites == get_mask_flag(p, ShowSprites)
                      /\ (get_mask_flag(p, ShowEdgeSprites) \/ x >= 8)
        Background(bg) ==
            IF bg.panic \/ (show_bg /\ overflow_checks /\ p.scroll_x + (x % 256) > 255)
            THEN [ppu |-> p, panic |-> TRUE]
            ELSE LET Sprites(p1, s) ==
                         IF s.panic THEN [ppu |-> p1, panic |-> TRUE]
                         ELSE [ppu |-> IF sprites
                                       THEN SpriteDot(p1, s.pixel, screen_coor,
                                                      IF drawn THEN bg.color # 0
                                                      ELSE screen_coor \in p.background_priority)
                                       ELSE p1,
                               panic |-> FALSE]
                 IN Sprites(IF show_bg THEN BackgroundDot(p, bg, drawn, screen_coor, x_fine)
                            ELSE p,
                            IF sprites THEN SpriteLoop(p, m, x, y, overflow_checks)
                            ELSE [consulted |-> {}, panic |-> FALSE, pixel |-> NoSpritePixel])
    IN Background(IF drawn THEN BackgroundPixel(p, m, x_fine) ELSE NoBackgroundPixel)

\* mutant of IncrementY: coarse Y 29 wraps without the nametable toggle
IncrementYNoToggle(p) ==
    IF BitAnd(p.vram_addr, 28672) # 28672
    THEN [p EXCEPT !.vram_addr = @ + 4096]
    ELSE LET v0 == BitAnd(p.vram_addr, Not16(28672))
             y0 == BitAnd(v0, 992) \div 32
             y1 == IF y0 = 29 THEN 0 ELSE IF y0 = 31 THEN 0 ELSE y0 + 1
         IN [p EXCEPT !.vram_addr = BitOr(BitAnd(v0, Not16(992)), y1 * 32)]

\* PPU::step, Render phase, dot 257: the fine-Y / coarse-Y increment of v
IncrementY(p) ==
    IF BitAnd(p.vram_addr, 28672) # 28672
    THEN [p EXCEPT !.vram_addr = @ + 4096]
    ELSE LET v0 == BitAnd(p.vram_addr, Not16(28672))
             y0 == BitAnd(v0, 992) \div 32
             v1 == IF y0 = 29 THEN BitXor(v0, 2048) ELSE v0
             y1 == IF y0 = 29 THEN 0 ELSE IF y0 = 31 THEN 0 ELSE y0 + 1
         IN [p EXCEPT !.vram_addr = BitOr(BitAnd(v1, Not16(992)), y1 * 32)]

\* PPU::step, Render phase
StepRender(p, m, overflow_checks) ==
    LET Dot(d) ==
            LET p1 == d.ppu
                p2 == IF p1.scanline_cycle >= SCANLINE_END_CYCLE
                      THEN LET e == EvalSprites(p1, p1.oam_addr \div 4)
                           IN [p1 EXCEPT !.line_sprites = e.line_sprites,
                                         !.status = IF e.overflow
                                                    THEN BitOr(@, SpriteOverflow) ELSE @,
                                         !.scanline = @ + 1,
                                         !.scanline_cycle = 0]
                      ELSE p1
            IN [ppu |-> IF d.panic THEN p
                        ELSE IF p2.scanline >= 240
                        THEN [p2 EXCEPT !.current_phase = "PostRender"] ELSE p2,
                panic |-> d.panic]
    IN Dot(IF p.scanline_cycle > 0 /\ p.scanline_cycle <= SCANLINE_DOTS
           THEN RenderDot(p, m, overflow_checks)
           ELSE IF p.scanline_cycle = SCANLINE_DOTS + 1 /\ get_mask_flag(p, ShowBackground)
           THEN [ppu |-> IncrementY(p), panic |-> FALSE]
           ELSE IF p.scanline_cycle = SCANLINE_DOTS + 2
                   /\ get_mask_flag(p, ShowBackground) /\ get_mask_flag(p, ShowSprites)
           THEN [ppu |-> [p EXCEPT !.vram_addr =
                            BitOr(BitAnd(@, Not16(1055)), BitAnd(p.tmp_vram_addr, 1055))],
                 panic |-> FALSE]
           ELSE [ppu |-> p, panic |-> FALSE])

\* PPU::step, PostRender phase
StepPostRender(p) ==
    IF p.scanline_cycle >= SCANLINE_END_CYCLE
    THEN [p EXCEPT !.scanline = @ + 1, !.scanline_cycle = 0, !.current_phase = "VBlank",
                   !.frame_buffer = p.back_buffer]
    ELSE p

\* the dot at which PPU::step sets the VBlank status bit
SetsVBlank(p) ==
    p.current_phase = "VBlank" /\ p.scanline_cycle = 1 /\ p.scanline = 241

\* PPU::step, VBlank phase; nmi is the line handed in by Bus::tick_ppu
StepVBlank(p, nmi) ==
    LET p1 == IF SetsVBlank(p) THEN [p EXCEPT !.status = BitOr(@, VBlankFlag)] ELSE p
        n1 == IF SetsVBlank(p) /\ BitAnd(p.control, GenerateInterrupt) # 0 THEN TRUE ELSE nmi
        p2 == IF p1.scanline_cycle >= SCANLINE_END_CYCLE
              THEN [p1 EXCEPT !.scanline = @ + 1, !.scanline_cycle = 0]
              ELSE p1
        p3 == IF p2.scanline >= 261
              THEN [p2 EXCEPT !.current_phase = "PreRender", !.scanline = 0,
                              !.even_frame = ~@]
              ELSE p2
    IN [ppu |-> p3, nmi |-> n1]

\* PPU::step: one dot; panic tells that the thread aborted in it
Step(p, m, nmi, overflow_checks) ==
    LET Stepped(r) ==
            IF r.panic THEN [ppu |-> p, nmi |-> nmi, panic |-> TRUE]
            ELSE [ppu |-> [r.ppu EXCEPT !.scanline_cycle = @ + 1], nmi |-> r.nmi,
                  panic |-> FALSE]
    IN Stepped(CASE p.current_phase = "PreRender" ->
                        [ppu |-> StepPreRender(p), nmi |-> nmi, panic |-> FALSE]
                 [] p.current_phase = "Render" ->
                        LET Rendered(d) == [ppu |-> d.ppu, nmi |-> nmi, panic |-> d.panic]
                        IN Rendered(StepRender(p, m, overflow_checks))
                 [] p.current_phase = "PostRender" ->
                        [ppu |-> StepPostRender(p), nmi |-> nmi, panic |-> FALSE]
                 [] p.current_phase = "VBlank" ->
                        LET Blanked(d) == [ppu |-> d.ppu, nmi |-> d.nmi, panic |-> FALSE]
                        IN Blanked(StepVBlank(p, nmi)))

\* ------------------------------------------------------------------------
\* Bus
\* ------------------------------------------------------------------------
\* Input::new
InputNew == [controller_state |-> 0, controller_shift |-> 0]

\* Bus::init; panicked records an aborted thread (an index out of bounds)
BusInit ==
    [ cartridge |-> MapperNone, input |-> InputNew, ram |-> ZeroMem,
      ppu |-> PPUNew, irq |-> FALSE, nmi_request |-> FALSE, extra_cycles |-> 0,
      panicked |-> FALSE,
      \* the build aborts on integer overflow (a property of the executable,
      \* chosen in Init where an overflow can happen)
      overflow_checks |-> FALSE ]

\* mutant of InputRead: the register is not shifted
InputReadNoShift(inp) ==
    [val |-> BitAnd(inp.controller_shift, 1),
     input |-> inp]

\* Input::read
InputRead(inp) ==
    [val |-> BitAnd(inp.controller_shift, 1),
     input |-> [inp EXCEPT !.controller_shift = @ \div 2]]

\* Input::write
InputWrite(inp, val) ==
    IF BitAnd(val, 1) # 0 THEN [inp EXCEPT !.controller_shift = inp.controller_state]
    ELSE inp

\* mutant of RamIndex: the address is used without the 0x07FF mask
RamIndexUnmasked(addr) == addr

\* the work RAM index of Bus::read and of Bus::write for 0x0000..0x1FFF
RamIndex(addr) == BitAnd(addr, 2047)

\* the register Bus::read hands to PPU::read_register for 0x2000..0x3FFF
ReadRegisterAddr(addr) == 8192 + BitAnd(addr, 7)

\* the register Bus::write hands to PPU::write_register for 0x2000..0x3FFF
WriteRegisterAddr(addr) == addr

\* Bus::read: the byte returned and the bus after the read's side effects
BusRead(b, addr) ==
    IF addr = 16406
    THEN LET r == InputRead(b.input) IN [val |-> r.val, bus |-> [b EXCEPT !.input = r.input]]
    ELSE IF addr <= 8191 THEN [val |-> Get(b.ram, RamIndex(addr)), bus |-> b]
    ELSE IF addr <= 16383
    THEN LET r == ReadRegister(b.ppu, b.cartridge, ReadRegisterAddr(addr))
         IN [val |-> r.val,
             bus |-> [b EXCEPT !.ppu = r.ppu, !.panicked = @ \/ r.panic]]
    ELSE IF addr >= 24576
    THEN LET v == cpu_read(b.cartridge, addr)
         IN IF v = OutOfBounds THEN [val |-> 0, bus |-> [b EXCEPT !.panicked = TRUE]]
            ELSE [val |-> v, bus |-> b]
    ELSE [val |-> 0, bus |-> b]

\* Bus::write_oam_dma, one iteration of the copy loop
OamDmaCopy(b, addr) ==
    IF b.panicked THEN b
    ELSE LET r == BusRead(b, addr)
             oam_addr == r.bus.ppu.oam_addr
         IN [r.bus EXCEPT !.ppu.oam_ram = Put(@, oam_addr, r.val),
                          !.ppu.oam_addr = (oam_addr + 1) % 256]

\* Bus::write_oam_dma, iterations i..n-1 of the copy loop, in order (the range
\* is halved to keep the evaluation shallow)
RECURSIVE OamDmaLoop(_, _, _, _)
OamDmaLoop(b, base_addr, i, n) ==
    IF n - i <= 0 THEN b
    ELSE IF n - i = 1 THEN OamDmaCopy(b, base_addr + i)
    ELSE LET mid == i + (n - i) \div 2
             first == OamDmaLoop(b, base_addr, i, mid)
         IN IF first.panicked THEN first ELSE OamDmaLoop(first, base_addr, mid, n)

\* mutant of write_oam_dma: the copy is made, the stall is not charged
write_oam_dma_no_stall(b, page) == OamDmaLoop(b, page * 256, 0, 256)

\* Bus::write_oam_dma
write_oam_dma(b, page) ==
    LET b1 == OamDmaLoop(b, page * 256, 0, 256)
    IN IF b1.panicked THEN b1 ELSE [b1 EXCEPT !.extra_cycles = 513]

\* Bus::write
BusWrite(b, addr, val) ==
    IF addr = 16406 THEN [b EXCEPT !.input = InputWrite(@, val)]
    ELSE IF addr = 16404 THEN write_oam_dma(b, val)
    ELSE IF addr <= 8191 THEN [b EXCEPT !.ram = Put(@, RamIndex(addr), val)]
    ELSE IF addr <= 16383
    THEN LET w == WriteRegister(b.ppu, b.cartridge, WriteRegisterAddr(addr), val)
         IN [b EXCEPT !.ppu = w.ppu, !.cartridge = w.mapper, !.panicked = @ \/ w.panic]
    ELSE IF addr >= 24576 THEN [b EXCEPT !.cartridge = cpu_write(@, addr, val)]
    ELSE b

\* PPURegisters::reset and PPU::reset (palette RAM, phase, frame parity, the
\* sprite list and the back buffer are not touched)
PPUReset(p) ==
    [p EXCEPT !.control = 0, !.mask = 0, !.status = 0, !.oam_addr = 0, !.oam_data = 0,
              !.ppu_addr = 0, !.ppu_data = 0, !.scroll_x = 0, !.scroll_y = 0,
              !.address_latch = FALSE, !.fine_x = 0, !.vram_addr = 0,
              !.tmp_vram_addr = 0, !.data_buffer = 0,
              !.vram = ZeroMem, !.oam_ram = ZeroMem,
              !.frame_buffer = [c \in TrackedPixels |-> BLACK],
              !.background_priority = {},
              !.scanline = 0, !.scanline_cycle = 0]

\* Bus::reset
BusReset(b) ==
    [b EXCEPT !.input = InputNew, !.ram = ZeroMem, !.irq = FALSE,
              !.nmi_request = FALSE, !.ppu = PPUReset(@), !.extra_cycles = 0]

\* Bus::load_cartridge
BusLoadCartridge(b, mapper) == [BusReset(b) EXCEPT !.cartridge = mapper]

\* Bus::tick_ppu hands ppu, nmi_request to PPU::step: one dot
TickDot(b) ==
    IF b.panicked THEN b
    ELSE LET Stepped(r) ==
                 [b EXCEPT !.ppu = r.ppu, !.nmi_request = r.nmi, !.panicked = r.panic]
         IN Stepped(Step(b.ppu, b.cartridge, b.nmi_request, b.overflow_checks))

\* ------------------------------------------------------------------------
\* CPU (src/src/cpu.rs)
\* ------------------------------------------------------------------------
FLAG_C == 1
FLAG_Z == 2
FLAG_I == 4
FLAG_D == 8
FLAG_B == 16
FLAG_U == 32
FLAG_V == 64
FLAG_N == 128

\* the registers CPU::reset writes, with pc the word read at 0xFFFC
CpuRegs(pc) == [a |-> 0, x |-> 0, y |-> 0, sp |-> 253, pc |-> pc, status |-> 36]

\* The CPU while one of its methods runs: the registers, the bytes the bus
\* returns to the method's reads, in order (served), the number of reads made
\* so far, the bus accesses made so far (<<"r", addr, byte read>> or
\* <<"w", addr, byte written>>) and whether the thread has panicked. The bus
\* itself is in CpuRun, which performs the accesses.
Machine(cpu, served) ==
    [cpu |-> cpu, served |-> served, reads |-> 0, acc |-> <<>>, panic |-> FALSE]

\* self.bus.read(addr): the next byte the bus returns (0 stands for a byte
\* the bus has not returned yet)
CpuBusRead(m, addr) ==
    LET Read(val) ==
            [val |-> val,
             m |-> [m EXCEPT !.reads = @ + 1, !.acc = Append(@, <<"r", addr, val>>)]]
    IN Read(IF m.reads < Len(m.served) THEN m.served[m.reads + 1] ELSE 0)

\* self.bus.write(addr, val)
CpuBusWrite(m, addr, val) == [m EXCEPT !.acc = Append(@, <<"w", addr, val>>)]

\* Bus::read_word
read_word(m, addr) ==
    LET Lo(lo) ==
            LET Hi(hi) == [val |-> hi.val * 256 + lo.val, m |-> hi.m]
            IN Hi(CpuBusRead(lo.m, (addr + 1) % 65536))
    IN Lo(CpuBusRead(m, addr))

\* CPU::set_flag on a status byte
set_flag(status, flag, to_set) ==
    IF to_set THEN BitOr(status, flag) ELSE BitAnd(status, Not8(flag))

\* CPU::get_flag
get_flag(cpu, flag) == BitAnd(cpu.status, flag) # 0

\* CPU::set_zn on a status byte
set_zn(status, val) ==
    set_flag(set_flag(status, FLAG_Z, val = 0), FLAG_N, BitAnd(val, 128) # 0)

\* CPU::fetch
fetch(m) ==
    LET Fetched(r) == [val |-> r.val, m |-> [r.m EXCEPT !.cpu.pc = (@ + 1) % 65536]]
    IN Fetched(CpuBusRead(m, m.cpu.pc))

\* CPU::fetch_word
fetch_word(m) ==
    LET Fetched(r) == [val |-> r.val, m |-> [r.m EXCEPT !.cpu.pc = (@ + 2) % 65536]]
    IN Fetched(read_word(m, m.cpu.pc))

\* CPU::push
push(m, val) ==
    [CpuBusWrite(m, m.cpu.sp + 256, val) EXCEPT !.cpu.sp = (m.cpu.sp + 65535) % 256]

\* CPU::pop
pop(m) ==
    CpuBusRead([m EXCEPT !.cpu.sp = (@ + 1) % 256], ((m.cpu.sp + 1) % 256) + 256)

\* CPU::push_word
push_word(m, word) == push(push(m, word \div 256), word % 256)

\* CPU::pop_word
pop_word(m) ==
    LET Lo(lo) ==
            LET Hi(hi) == [val |-> hi.val * 256 + lo.val, m |-> hi.m]
            IN Hi(pop(lo.m))
    IN Lo(pop(m))

\* AddressMode::get_crosspage_penalty
get_crosspage_penalty(base, effective) ==
    IF base \div 256 # effective \div 256 THEN 1 ELSE 0

\* the indexed modes' dummy read at (base & 0xFF00) | (effective & 0xFF) when
\* the page is crossed
IndexedDecode(m, base_addr, index) ==
    LET effective == (base_addr + index) % 65536
        penalty == get_crosspage_penalty(base_addr, effective)
    IN [m |-> IF penalty = 1
              THEN CpuBusRead(m, (base_addr \div 256) * 256 + (effective % 256)).m
              ELSE m,
        addr |-> effective, extra |-> penalty]

\* AddressMode::decode: the effective address and the page-crossing penalty
decode(m, mode) ==
    CASE mode = "Accumulator" ->
            [m |-> [m EXCEPT !.cpu.pc = (@ + 1) % 65536], addr |-> 0, extra |-> 0]
      [] mode = "Immediate" ->
            [m |-> [m EXCEPT !.cpu.pc = (@ + 1) % 65536], addr |-> m.cpu.pc, extra |-> 0]
      [] mode = "ZeroPage" ->
            LET Zp(f) == [m |-> f.m, addr |-> f.val, extra |-> 0] IN Zp(fetch(m))
      [] mode = "ZeroPageX" ->
            LET Zp(f) == [m |-> CpuBusRead(f.m, f.val).m, addr |-> (f.val + m.cpu.x) % 256,
                          extra |-> 0]
            IN Zp(fetch(m))
      [] mode = "ZeroPageY" ->
            LET Zp(f) == [m |-> CpuBusRead(f.m, f.val).m, addr |-> (f.val + m.cpu.y) % 256,
                          extra |-> 0]
            IN Zp(fetch(m))
      [] mode = "Absolute" ->
            LET Abs(f) == [m |-> f.m, addr |-> f.val, extra |-> 0] IN Abs(fetch_word(m))
      [] mode = "AbsoluteX" ->
            LET Abs(f) == IndexedDecode(f.m, f.val, m.cpu.x) IN Abs(fetch_word(m))
      [] mode = "AbsoluteY" ->
            LET Abs(f) == IndexedDecode(f.m, f.val, m.cpu.y) IN Abs(fetch_word(m))
      [] mode = "Indirect" ->
            LET Ptr(f) ==
                    LET Lo(lo) ==
                            LET Hi(hi) ==
                                    [m |-> hi.m, addr |-> hi.val * 256 + lo.val, extra |-> 0]
                            IN Hi(CpuBusRead(lo.m, IF f.val % 256 = 255
                                                   THEN (f.val \div 256) * 256
                                                   ELSE f.val + 1))
                    IN Lo(CpuBusRead(f.m, f.val))
            IN Ptr(fetch_word(m))
      [] mode = "IndirectX" ->
            LET Zp(f) ==
                    LET Dummy(d) ==
                            LET Lo(lo) ==
                                    LET Hi(hi) ==
                                            [m |-> hi.m, addr |-> hi.val * 256 + lo.val,
                                             extra |-> 0]
                                    IN Hi(CpuBusRead(lo.m, (f.val + m.cpu.x + 1) % 256))
                            IN Lo(CpuBusRead(d.m, (f.val + m.cpu.x) % 256))
                    IN Dummy(CpuBusRead(f.m, f.val))
            IN Zp(fetch(m))
      [] mode = "IndirectY" ->
            LET Zp(f) ==
                    LET Lo(lo) ==
                            LET Hi(hi) ==
                                    IndexedDecode(hi.m, hi.val * 256 + lo.val, m.cpu.y)
                            IN Hi(CpuBusRead(lo.m, (f.val + 1) % 256))
                    IN Lo(CpuBusRead(f.m, f.val))
            IN Zp(fetch(m))
      [] mode = "Relative" ->
            LET Rel(f) ==
                    LET offset == IF f.val >= 128 THEN f.val - 256 ELSE f.val
                        effective == (f.m.cpu.pc + offset + 65536) % 65536
                    IN [m |-> f.m, addr |-> effective,
                        extra |-> get_crosspage_penalty(f.m.cpu.pc, effective)]
            IN Rel(fetch(m))

\* an entry of the opcode table of CPU::execute_instruction: the method
\* called and its arguments
OpEntry(ins, reg, src, mode, cycles, flag, want) ==
    [ins |-> ins, reg |-> reg, src |-> src, mode |-> mode, cycles |-> cycles,
     flag |-> flag, want |-> want]
Op(ins, mode, cycles) == OpEntry(ins, "", "", mode, cycles, 0, FALSE)
OpR(ins, reg, mode, cycles) == OpEntry(ins, reg, "", mode, cycles, 0, FALSE)
OpT(ins, reg, src) == OpEntry(ins, reg, src, "", 0, 0, FALSE)
OpF(ins, flag, want) == OpEntry(ins, "", "", "", 0, flag, want)
Op0(ins) == OpEntry(ins, "", "", "", 0, 0, FALSE)

\* the match of CPU::execute_instruction, opcode by opcode in source order
\* (brcnd: the branch is taken when flag = want; clf / stf: the flag is set to
\* want; trr: reg is the destination, src the source)
OpcodeTable ==
       105 :> Op("adc", "Immediate", 2)   \* 0x69
    @@ 101 :> Op("adc", "ZeroPage", 3)   \* 0x65
    @@ 117 :> Op("adc", "ZeroPageX", 4)   \* 0x75
    @@ 109 :> Op("adc", "Absolute", 4)   \* 0x6D
    @@ 125 :> Op("adc", "AbsoluteX", 4)   \* 0x7D
    @@ 121 :> Op("adc", "AbsoluteY", 4)   \* 0x79
    @@ 97 :> Op("adc", "IndirectX", 6)   \* 0x61
    @@ 113 :> Op("adc", "IndirectY", 5)   \* 0x71
    @@ 41 :> Op("and", "Immediate", 2)   \* 0x29
    @@ 37 :> Op("and", "ZeroPage", 3)   \* 0x25
    @@ 53 :> Op("and", "ZeroPageX", 4)   \* 0x35
    @@ 45 :> Op("and", "Absolute", 4)   \* 0x2D
    @@ 61 :> Op("and", "AbsoluteX", 4)   \* 0x3D
    @@ 57 :> Op("and", "AbsoluteY", 4)   \* 0x39
    @@ 33 :> Op("and", "IndirectX", 6)   \* 0x21
    @@ 49 :> Op("and", "IndirectY", 5)   \* 0x31
    @@ 10 :> Op("asl", "Accumulator", 2)   \* 0x0A
    @@ 6 :> Op("asl", "ZeroPage", 5)   \* 0x06
    @@ 22 :> Op("asl", "ZeroPageX", 6)   \* 0x16
    @@ 14 :> Op("asl", "Absolute", 6)   \* 0x0E
    @@ 30 :> Op("asl", "AbsoluteX", 7)   \* 0x1E
    @@ 144 :> OpF("brcnd", FLAG_C, FALSE)   \* 0x90
    @@ 176 :> OpF("brcnd", FLAG_C, TRUE)   \* 0xB0
    @@ 240 :> OpF("brcnd", FLAG_Z, TRUE)   \* 0xF0
    @@ 48 :> OpF("brcnd", FLAG_N, TRUE)   \* 0x30
    @@ 208 :> OpF("brcnd", FLAG_Z, FALSE)   \* 0xD0
    @@ 16 :> OpF("brcnd", FLAG_N, FALSE)   \* 0x10
    @@ 112 :> OpF("brcnd", FLAG_V, TRUE)   \* 0x70
    @@ 80 :> OpF("brcnd", FLAG_V, FALSE)   \* 0x50
    @@ 36 :> Op("bit", "ZeroPage", 3)   \* 0x24
    @@ 44 :> Op("bit", "Absolute", 4)   \* 0x2C
    @@ 0 :> Op0("brk")   \* 0x00
    @@ 24 :> OpF("clf", FLAG_C, FALSE)   \* 0x18
    @@ 216 :> OpF("clf", FLAG_D, FALSE)   \* 0xD8
    @@ 88 :> OpF("clf", FLAG_I, FALSE)   \* 0x58
    @@ 184 :> OpF("clf", FLAG_V, FALSE)   \* 0xB8
    @@ 201 :> OpR("cmp", "A", "Immediate", 2)   \* 0xC9
    @@ 197 :> OpR("cmp", "A", "ZeroPage", 3)   \* 0xC5
    @@ 213 :> OpR("cmp", "A", "ZeroPageX", 3)   \* 0xD5
    @@ 205 :> OpR("cmp", "A", "Absolute", 4)   \* 0xCD
    @@ 221 :> OpR("cmp", "A", "AbsoluteX", 4)   \* 0xDD
    @@ 217 :> OpR("cmp", "A", "AbsoluteY", 4)   \* 0xD9
    @@ 193 :> OpR("cmp", "A", "IndirectX", 6)   \* 0xC1
    @@ 209 :> OpR("cmp", "A", "IndirectY", 5)   \* 0xD1
    @@ 224 :> OpR("cmp", "X", "Immediate", 2)   \* 0xE0
    @@ 228 :> OpR("cmp", "X", "ZeroPage", 3)   \* 0xE4
    @@ 236 :> OpR("cmp", "X", "Absolute", 4)   \* 0xEC
    @@ 192 :> OpR("cmp", "Y", "Immediate", 2)   \* 0xC0
    @@ 196 :> OpR("cmp", "Y", "ZeroPage", 3)   \* 0xC4
    @@ 204 :> OpR("cmp", "Y", "Absolute", 4)   \* 0xCC
    @@ 198 :> Op("dec", "ZeroPage", 5)   \* 0xC6
    @@ 214 :> Op("dec", "ZeroPageX", 6)   \* 0xD6
    @@ 206 :> Op("dec", "Absolute", 6)   \* 0xCE
    @@ 222 :> Op("dec", "AbsoluteX", 7)   \* 0xDE
    @@ 202 :> OpT("dec_reg", "X", "")   \* 0xCA
    @@ 136 :> OpT("dec_reg", "Y", "")   \* 0x88
    @@ 230 :> Op("inc", "ZeroPage", 5)   \* 0xE6
    @@ 246 :> Op("inc", "ZeroPageX", 6)   \* 0xF6
    @@ 238 :> Op("inc", "Absolute", 6)   \* 0xEE
    @@ 254 :> Op("inc", "AbsoluteX", 7)   \* 0xFE
    @@ 232 :> OpT("inc_reg", "X", "")   \* 0xE8
    @@ 200 :> OpT("inc_reg", "Y", "")   \* 0xC8
    @@ 73 :> Op("xor", "Immediate", 2)   \* 0x49
    @@ 69 :> Op("xor", "ZeroPage", 3)   \* 0x45
    @@ 85 :> Op("xor", "ZeroPageX", 4)   \* 0x55
    @@ 77 :> Op("xor", "Absolute", 4)   \* 0x4D
    @@ 93 :> Op("xor", "AbsoluteX", 4)   \* 0x5D
    @@ 89 :> Op("xor", "AbsoluteY", 4)   \* 0x59
    @@ 65 :> Op("xor", "IndirectX", 6)   \* 0x41
    @@ 81 :> Op("xor", "IndirectY", 5)   \* 0x51
    @@ 76 :> Op("jmp", "Absolute", 3)   \* 0x4C
    @@ 108 :> Op("jmp", "Indirect", 5)   \* 0x6C
    @@ 32 :> Op0("jsr")   \* 0x20
    @@ 169 :> OpR("ldreg", "A", "Immediate", 2)   \* 0xA9
    @@ 165 :> OpR("ldreg", "A", "ZeroPage", 3)   \* 0xA5
    @@ 181 :> OpR("ldreg", "A", "ZeroPageX", 4)   \* 0xB5
    @@ 173 :> OpR("ldreg", "A", "Absolute", 4)   \* 0xAD
    @@ 189 :> OpR("ldreg", "A", "AbsoluteX", 4)   \* 0xBD
    @@ 185 :> OpR("ldreg", "A", "AbsoluteY", 4)   \* 0xB9
    @@ 161 :> OpR("ldreg", "A", "IndirectX", 6)   \* 0xA1
    @@ 177 :> OpR("ldreg", "A", "IndirectY", 5)   \* 0xB1
    @@ 162 :> OpR("ldreg", "X", "Immediate", 2)   \* 0xA2
    @@ 166 :> OpR("ldreg", "X", "ZeroPage", 3)   \* 0xA6
    @@ 182 :> OpR("ldreg", "X", "ZeroPageY", 4)   \* 0xB6
    @@ 174 :> OpR("ldreg", "X", "Absolute", 4)   \* 0xAE
    @@ 190 :> OpR("ldreg", "X", "AbsoluteY", 4)   \* 0xBE
    @@ 160 :> OpR("ldreg", "Y", "Immediate", 2)   \* 0xA0
    @@ 164 :> OpR("ldreg", "Y", "ZeroPage", 3)   \* 0xA4
    @@ 180 :> OpR("ldreg", "Y", "ZeroPageX", 4)   \* 0xB4
    @@ 172 :> OpR("ldreg", "Y", "Absolute", 4)   \* 0xAC
    @@ 188 :> OpR("ldreg", "Y", "AbsoluteX", 4)   \* 0xBC
    @@ 234 :> Op0("nop")   \* 0xEA
    @@ 74 :> Op("lsr", "Accumulator", 2)   \* 0x4A
    @@ 70 :> Op("lsr", "ZeroPage", 5)   \* 0x46
    @@ 86 :> Op("lsr", "ZeroPageX", 6)   \* 0x56
    @@ 78 :> Op("lsr", "Absolute", 6)   \* 0x4E
    @@ 94 :> Op("lsr", "AbsoluteX", 7)   \* 0x5E
    @@ 9 :> Op("or", "Immediate", 2)   \* 0x09
    @@ 5 :> Op("or", "ZeroPage", 3)   \* 0x05
    @@ 21 :> Op("or", "ZeroPageX", 4)   \* 0x15
    @@ 13 :> Op("or", "Absolute", 4)   \* 0x0D
    @@ 29 :> Op("or", "AbsoluteX", 4)   \* 0x1D
    @@ 25 :> Op("or", "AbsoluteY", 4)   \* 0x19
    @@ 1 :> Op("or", "IndirectX", 6)   \* 0x01
    @@ 17 :> Op("or", "IndirectY", 5)   \* 0x11
    @@ 72 :> Op0("pha")   \* 0x48
    @@ 8 :> Op0("php")   \* 0x08
    @@ 104 :> Op0("pla")   \* 0x68
    @@ 40 :> Op0("plp")   \* 0x28
    @@ 42 :> Op("rol", "Accumulator", 2)   \* 0x2A
    @@ 38 :> Op("rol", "ZeroPage", 5)   \* 0x26
    @@ 54 :> Op("rol", "ZeroPageX", 6)   \* 0x36
    @@ 46 :> Op("rol", "Absolute", 6)   \* 0x2E
    @@ 62 :> Op("rol", "AbsoluteX", 7)   \* 0x3E
    @@ 106 :> Op("ror", "Accumulator", 2)   \* 0x6A
    @@ 102 :> Op("ror", "ZeroPage", 5)   \* 0x66
    @@ 118 :> Op("ror", "ZeroPageX", 6)   \* 0x76
    @@ 110 :> Op("ror", "Absolute", 6)   \* 0x6E
    @@ 126 :> Op("ror", "AbsoluteX", 7)   \* 0x7E
    @@ 64 :> Op0("rti")   \* 0x40
    @@ 96 :> Op0("rts")   \* 0x60
    @@ 233 :> Op("sbc", "Immediate", 2)   \* 0xE9
    @@ 229 :> Op("sbc", "ZeroPage", 3)   \* 0xE5
    @@ 245 :> Op("sbc", "ZeroPageX", 4)   \* 0xF5
    @@ 237 :> Op("sbc", "Absolute", 4)   \* 0xED
    @@ 253 :> Op("sbc", "AbsoluteX", 4)   \* 0xFD
    @@ 249 :> Op("sbc", "AbsoluteY", 4)   \* 0xF9
    @@ 225 :> Op("sbc", "IndirectX", 6)   \* 0xE1
    @@ 241 :> Op("sbc", "IndirectY", 5)   \* 0xF1
    @@ 56 :> OpF("stf", FLAG_C, TRUE)   \* 0x38
    @@ 248 :> OpF("stf", FLAG_D, TRUE)   \* 0xF8
    @@ 120 :> OpF("stf", FLAG_I, TRUE)   \* 0x78
    @@ 133 :> Op("sta", "ZeroPage", 3)   \* 0x85
    @@ 149 :> Op("sta", "ZeroPageX", 4)   \* 0x95
    @@ 141 :> Op("sta", "Absolute", 4)   \* 0x8D
    @@ 157 :> Op("sta", "AbsoluteX", 5)   \* 0x9D
    @@ 153 :> Op("sta", "AbsoluteY", 5)   \* 0x99
    @@ 129 :> Op("sta", "IndirectX", 6)   \* 0x81
    @@ 145 :> Op("sta", "IndirectY", 6)   \* 0x91
    @@ 134 :> Op("stx", "ZeroPage", 3)   \* 0x86
    @@ 150 :> Op("stx", "ZeroPageY", 4)   \* 0x96
    @@ 142 :> Op("stx", "Absolute", 4)   \* 0x8E
    @@ 132 :> Op("sty", "ZeroPage", 3)   \* 0x84
    @@ 148 :> Op("sty", "ZeroPageX", 4)   \* 0x94
    @@ 140 :> Op("sty", "Absolute", 4)   \* 0x8C
    @@ 170 :> OpT("trr", "X", "A")   \* 0xAA
    @@ 168 :> OpT("trr", "Y", "A")   \* 0xA8
    @@ 138 :> OpT("trr", "A", "X")   \* 0x8A
    @@ 152 :> OpT("trr", "A", "Y")   \* 0x98
    @@ 186 :> Op0("tsx")   \* 0xBA
    @@ 154 :> Op0("txs")   \* 0x9A
    @@ 167 :> Op("lax", "ZeroPage", 3)   \* 0xA7
    @@ 183 :> Op("lax", "ZeroPageY", 4)   \* 0xB7
    @@ 175 :> Op("lax", "Absolute", 4)   \* 0xAF
    @@ 191 :> Op("lax", "AbsoluteY", 4)   \* 0xBF
    @@ 163 :> Op("lax", "IndirectX", 6)   \* 0xA3
    @@ 179 :> Op("lax", "IndirectY", 5)   \* 0xB3
    @@ 135 :> Op("sax", "ZeroPage", 3)   \* 0x87
    @@ 151 :> Op("sax", "ZeroPageY", 4)   \* 0x97
    @@ 143 :> Op("sax", "Absolute", 4)   \* 0x8F
    @@ 131 :> Op("sax", "IndirectX", 6)   \* 0x83
    @@ 4 :> Op("multibyte_nop", "ZeroPage", 3)   \* 0x04
    @@ 68 :> Op("multibyte_nop", "ZeroPage", 3)   \* 0x44
    @@ 100 :> Op("multibyte_nop", "ZeroPage", 3)   \* 0x64
    @@ 12 :> Op("multibyte_nop", "Absolute", 4)   \* 0x0C
    @@ 20 :> Op("multibyte_nop", "ZeroPageX", 4)   \* 0x14
    @@ 52 :> Op("multibyte_nop", "ZeroPageX", 4)   \* 0x34
    @@ 84 :> Op("multibyte_nop", "ZeroPageX", 4)   \* 0x54
    @@ 116 :> Op("multibyte_nop", "ZeroPageX", 4)   \* 0x74
    @@ 212 :> Op("multibyte_nop", "ZeroPageX", 4)   \* 0xD4
    @@ 244 :> Op("multibyte_nop", "ZeroPageX", 4)   \* 0xF4
    @@ 28 :> Op("multibyte_nop", "AbsoluteX", 4)   \* 0x1C
    @@ 60 :> Op("multibyte_nop", "AbsoluteX", 4)   \* 0x3C
    @@ 92 :> Op("multibyte_nop", "AbsoluteX", 4)   \* 0x5C
    @@ 124 :> Op("multibyte_nop", "AbsoluteX", 4)   \* 0x7C
    @@ 220 :> Op("multibyte_nop", "AbsoluteX", 4)   \* 0xDC
    @@ 252 :> Op("multibyte_nop", "AbsoluteX", 4)   \* 0xFC
    @@ 26 :> Op0("nop")   \* 0x1A
    @@ 58 :> Op0("nop")   \* 0x3A
    @@ 90 :> Op0("nop")   \* 0x5A
    @@ 122 :> Op0("nop")   \* 0x7A
    @@ 218 :> Op("multibyte_nop", "AbsoluteX", 4)   \* 0xDA
    @@ 137 :> Op("multibyte_nop", "Immediate", 2)   \* 0x89
    @@ 235 :> Op("sbc", "Immediate", 2)   \* 0xEB
    @@ 199 :> Op("dcp", "ZeroPage", 5)   \* 0xC7
    @@ 215 :> Op("dcp", "ZeroPageX", 6)   \* 0xD7
    @@ 207 :> Op("dcp", "Absolute", 6)   \* 0xCF
    @@ 223 :> Op("dcp", "AbsoluteX", 7)   \* 0xDF
    @@ 219 :> Op("dcp", "AbsoluteY", 7)   \* 0xDB
    @@ 195 :> Op("dcp", "IndirectX", 8)   \* 0xC3
    @@ 211 :> Op("dcp", "IndirectY", 8)   \* 0xD3
    @@ 231 :> Op("isb", "ZeroPage", 5)   \* 0xE7
    @@ 247 :> Op("isb", "ZeroPageX", 6)   \* 0xF7
    @@ 239 :> Op("isb", "Absolute", 6)   \* 0xEF
    @@ 255 :> Op("isb", "AbsoluteX", 7)   \* 0xFF
    @@ 251 :> Op("isb", "AbsoluteY", 7)   \* 0xFB
    @@ 227 :> Op("isb", "IndirectX", 8)   \* 0xE3
    @@ 243 :> Op("isb", "IndirectY", 8)   \* 0xF3
    @@ 7 :> Op("slo", "ZeroPage", 8)   \* 0x07
    @@ 23 :> Op("slo", "ZeroPageX", 6)   \* 0x17
    @@ 15 :> Op("slo", "Absolute", 6)   \* 0x0F
    @@ 31 :> Op("slo", "AbsoluteX", 7)   \* 0x1F
    @@ 3 :> Op("slo", "IndirectX", 8)   \* 0x03
    @@ 19 :> Op("slo", "IndirectY", 8)   \* 0x13
    @@ 27 :> Op("slo", "AbsoluteY", 7)   \* 0x1B
    @@ 35 :> Op("rla", "IndirectX", 8)   \* 0x23
    @@ 39 :> Op("rla", "ZeroPage", 5)   \* 0x27
    @@ 47 :> Op("rla", "Absolute", 6)   \* 0x2F
    @@ 51 :> Op("rla", "IndirectY", 8)   \* 0x33
    @@ 55 :> Op("rla", "ZeroPageX", 6)   \* 0x37
    @@ 59 :> Op("rla", "AbsoluteY", 7)   \* 0x3B
    @@ 63 :> Op("rla", "AbsoluteX", 7)   \* 0x3F
    @@ 67 :> Op("srx", "IndirectX", 8)   \* 0x43
    @@ 71 :> Op("srx", "ZeroPage", 5)   \* 0x47
    @@ 79 :> Op("srx", "Absolute", 6)   \* 0x4F
    @@ 83 :> Op("srx", "IndirectY", 8)   \* 0x53
    @@ 87 :> Op("srx", "ZeroPageX", 6)   \* 0x57
    @@ 95 :> Op("srx", "AbsoluteX", 7)   \* 0x5F
    @@ 91 :> Op("srx", "AbsoluteY", 7)   \* 0x5B
    @@ 103 :> Op("rra", "ZeroPage", 5)   \* 0x67
    @@ 119 :> Op("rra", "ZeroPageX", 6)   \* 0x77
    @@ 111 :> Op("rra", "Absolute", 6)   \* 0x6F
    @@ 127 :> Op("rra", "AbsoluteX", 7)   \* 0x7F
    @@ 123 :> Op("rra", "AbsoluteY", 7)   \* 0x7B
    @@ 99 :> Op("rra", "IndirectX", 8)   \* 0x63
    @@ 115 :> Op("rra", "IndirectY", 8)   \* 0x73
    @@ 50 :> Op0("halt")   \* 0x32

\* the opcodes with an arm in the match; every other byte reaches the
\* unreachable!() arm
Implemented == DOMAIN OpcodeTable


\* what an instruction method returns: the machine and the cycle count
Ret(m, cycles) == [m |-> m, ret |-> cycles]

\* Register::get
RegGet(cpu, reg) == CASE reg = "A" -> cpu.a [] reg = "X" -> cpu.x [] reg = "Y" -> cpu.y

\* Register::get_mut, assigned
RegSet(cpu, reg, val) ==
    CASE reg = "A" -> [cpu EXCEPT !.a = val]
      [] reg = "X" -> [cpu EXCEPT !.x = val]
      [] reg = "Y" -> [cpu EXCEPT !.y = val]

\* address_mode.decode(self) followed by self.bus.read(addr)
ReadOperand(m, mode) ==
    LET Decoded(d) ==
            LET Read(r) == [m |-> r.m, val |-> r.val, addr |-> d.addr, extra |-> d.extra]
            IN Read(CpuBusRead(d.m, d.addr))
    IN Decoded(decode(m, mode))

\* the addition of adc: flags and accumulator
AdcRegs(cpu, val) ==
    LET carry_in == IF get_flag(cpu, FLAG_C) THEN 1 ELSE 0
        result == cpu.a + val + carry_in
        res8 == result % 256
        v == BitAnd(BitAnd(Not8(BitXor(cpu.a, val)), BitXor(cpu.a, res8)), 128) # 0
        s == set_flag(set_zn(set_flag(cpu.status, FLAG_C, result > 255), res8), FLAG_V, v)
    IN [cpu EXCEPT !.a = res8, !.status = s]

\* the addition of sbc and isb, val being the complemented operand
SbcRegs(cpu, val) ==
    LET carry_in == IF get_flag(cpu, FLAG_C) THEN 1 ELSE 0
        result == cpu.a + val + carry_in
        res8 == result % 256
        v == BitAnd(BitAnd(BitXor(cpu.a, res8), BitXor(val, res8)), 128) # 0
        s == set_flag(set_zn(set_flag(cpu.status, FLAG_C, result > 255), res8), FLAG_V, v)
    IN [cpu EXCEPT !.a = res8, !.status = s]

\* CPU::adc
adc(m, e) ==
    LET Operand(o) == Ret([o.m EXCEPT !.cpu = AdcRegs(@, o.val)], e.cycles + o.extra)
    IN Operand(ReadOperand(m, e.mode))

\* CPU::sbc
sbc(m, e) ==
    LET Operand(o) == Ret([o.m EXCEPT !.cpu = SbcRegs(@, Not8(o.val))], e.cycles + o.extra)
    IN Operand(ReadOperand(m, e.mode))

\* CPU::and / CPU::or / CPU::xor: the accumulator combined with the operand
Logic(m, e) ==
    LET Operand(o) ==
            LET a == CASE e.ins = "and" -> BitAnd(o.m.cpu.a, o.val)
                       [] e.ins = "or" -> BitOr(o.m.cpu.a, o.val)
                       [] e.ins = "xor" -> BitXor(o.m.cpu.a, o.val)
            IN Ret([o.m EXCEPT !.cpu.a = a, !.cpu.status = set_zn(@, a)],
                   e.cycles + o.extra)
    IN Operand(ReadOperand(m, e.mode))

\* the reads and the first write of a read-modify-write instruction: the
\* operand is read, with a dummy read at the same address (before the read
\* when dummy_first, after it otherwise) when the mode is one of dummy_modes
\* and no page was crossed; then the unmodified byte is written back
RmwRead(m, mode, dummy_modes, dummy_first) ==
    LET Decoded(d) ==
            LET dummy == mode \in dummy_modes /\ d.extra = 0
                Read(r) ==
                    [m |-> CpuBusWrite(IF dummy /\ ~dummy_first
                                       THEN CpuBusRead(r.m, d.addr).m ELSE r.m,
                                       d.addr, r.val),
                     val |-> r.val, addr |-> d.addr, extra |-> d.extra]
            IN Read(CpuBusRead(IF dummy /\ dummy_first
                               THEN CpuBusRead(d.m, d.addr).m ELSE d.m,
                               d.addr))
    IN Decoded(decode(m, mode))

\* the shifted byte and the carry out of asl / lsr / rol / ror
Shifted(ins, value, carry) ==
    CASE ins = "asl" -> [val |-> (value * 2) % 256, c |-> value >= 128]
      [] ins = "lsr" -> [val |-> value \div 2, c |-> value % 2 = 1]
      [] ins = "rol" -> [val |-> BitOr((value * 2) % 256, IF carry THEN 1 ELSE 0),
                         c |-> value >= 128]
      [] ins = "ror" -> [val |-> BitOr(value \div 2, IF carry THEN 128 ELSE 0),
                         c |-> value % 2 = 1]

\* CPU::asl / CPU::lsr / CPU::rol / CPU::ror
shift(m, e) ==
    IF e.mode = "Accumulator"
    THEN LET s == Shifted(e.ins, m.cpu.a, get_flag(m.cpu, FLAG_C))
         IN Ret([CpuBusRead(m, m.cpu.pc).m
                     EXCEPT !.cpu.a = s.val,
                            !.cpu.status = set_flag(set_zn(@, s.val), FLAG_C, s.c)],
                e.cycles)
    ELSE LET Operand(o) ==
                 LET s == Shifted(e.ins, o.val, get_flag(m.cpu, FLAG_C))
                 IN Ret([CpuBusWrite(o.m, o.addr, s.val)
                             EXCEPT !.cpu.status = set_flag(set_zn(@, s.val), FLAG_C, s.c)],
                        e.cycles)
         IN Operand(RmwRead(m, e.mode, {"AbsoluteX"}, TRUE))

\* CPU::dec / CPU::inc (delta 255 / 1)
incdec(m, e, delta) ==
    LET Operand(o) ==
            LET res == (o.val + delta) % 256
            IN Ret([CpuBusWrite(o.m, o.addr, res) EXCEPT !.cpu.status = set_zn(@, res)],
                   e.cycles)
    IN Operand(RmwRead(m, e.mode, {"AbsoluteX"}, FALSE))

\* CPU::dec_reg / CPU::inc_reg (delta 255 / 1)
incdec_reg(m, e, delta) ==
    LET res == (RegGet(m.cpu, e.reg) + delta) % 256
    IN Ret([CpuBusRead(m, m.cpu.pc).m
                EXCEPT !.cpu = [RegSet(@, e.reg, res) EXCEPT !.status = set_zn(@, res)]], 2)

\* CPU::brcnd
brcnd(m, e) ==
    LET Decoded(d) ==
            LET pc == d.m.cpu.pc
            IN IF get_flag(m.cpu, e.flag) = e.want
               THEN LET Taken(m1) ==
                            Ret([(IF pc \div 256 # d.addr \div 256
                                  THEN CpuBusRead(m1, (pc \div 256) * 256
                                                      + (d.addr % 256)).m
                                  ELSE m1) EXCEPT !.cpu.pc = d.addr], 3 + d.extra)
                    IN Taken(CpuBusRead(d.m, pc).m)
               ELSE Ret(d.m, 2)
    IN Decoded(decode(m, "Relative"))

\* CPU::bit
bit(m, e) ==
    LET Operand(o) ==
            Ret([o.m EXCEPT !.cpu.status =
                     set_flag(set_flag(set_flag(@, FLAG_Z, BitAnd(o.val, o.m.cpu.a) = 0),
                                       FLAG_V, BitAnd(o.val, 64) # 0),
                              FLAG_N, BitAnd(o.val, 128) # 0)],
                e.cycles)
    IN Operand(ReadOperand(m, e.mode))

\* CPU::brk
brk(m) ==
    LET Fetched(f) ==
            LET Pushed(m1) ==
                    LET Vector(v) == Ret([v.m EXCEPT !.cpu.pc = v.val], 7)
                    IN Vector(read_word(
                           [push(m1, BitOr(m1.cpu.status, FLAG_B + FLAG_U))
                                EXCEPT !.cpu.status =
                                    set_flag(set_flag(@, FLAG_B, FALSE), FLAG_I, TRUE)],
                           65534))
            IN Pushed(push_word(f.m, f.m.cpu.pc))
    IN Fetched(fetch(m))

\* CPU::clf / CPU::stf
setclr(m, e) ==
    Ret([CpuBusRead(m, m.cpu.pc).m EXCEPT !.cpu.status = set_flag(@, e.flag, e.want)], 2)

\* CPU::cmp
cmp(m, e) ==
    LET Operand(o) ==
            LET reg == RegGet(o.m.cpu, e.reg)
            IN Ret([o.m EXCEPT !.cpu.status =
                        set_flag(set_flag(set_flag(@, FLAG_Z, reg = o.val),
                                          FLAG_C, reg >= o.val),
                                 FLAG_N, BitAnd((reg + 256 - o.val) % 256, 128) # 0)],
                   e.cycles + o.extra)
    IN Operand(ReadOperand(m, e.mode))

\* CPU::jmp
jmp(m, e) ==
    LET Decoded(d) == Ret([d.m EXCEPT !.cpu.pc = d.addr], e.cycles)
    IN Decoded(decode(m, e.mode))

\* CPU::jsr
jsr(m) ==
    LET Lo(lo) ==
            LET Dummy(m1) ==
                    LET Hi(hi) == Ret([hi.m EXCEPT !.cpu.pc = hi.val * 256 + lo.val], 6)
                    IN Hi(fetch(push_word(m1, m1.cpu.pc)))
            IN Dummy(CpuBusRead(lo.m, lo.m.cpu.sp + 256).m)
    IN Lo(fetch(m))

\* CPU::ldreg
ldreg(m, e) ==
    LET Operand(o) ==
            Ret([o.m EXCEPT !.cpu = [RegSet(@, e.reg, o.val)
                                         EXCEPT !.status = set_zn(@, o.val)]],
                e.cycles + o.extra)
    IN Operand(ReadOperand(m, e.mode))

\* CPU::lax
lax(m, e) ==
    LET Operand(o) ==
            Ret([o.m EXCEPT !.cpu.a = o.val, !.cpu.x = o.val,
                            !.cpu.status = set_zn(@, o.val)],
                e.cycles + o.extra)
    IN Operand(ReadOperand(m, e.mode))

\* CPU::nop
nop(m) == Ret(CpuBusRead(m, m.cpu.pc).m, 2)

\* CPU::multibyte_nop
multibyte_nop(m, e) ==
    LET Decoded(d) == Ret(d.m, e.cycles + d.extra) IN Decoded(decode(m, e.mode))

\* CPU::pha
pha(m) == Ret(push(CpuBusRead(m, m.cpu.pc).m, m.cpu.a), 3)
\* mutant of php: the status is pushed with U set but without B
php_without_break(m) == Ret(push(CpuBusRead(m, m.cpu.pc).m, BitOr(m.cpu.status, FLAG_U)), 3)

\* CPU::php
php(m) == Ret(push(CpuBusRead(m, m.cpu.pc).m, BitOr(m.cpu.status, FLAG_B + FLAG_U)), 3)

\* the dummy reads of pla / plp / rti / rts
PullReads(m) == CpuBusRead(CpuBusRead(m, m.cpu.pc).m, m.cpu.sp + 256).m

\* CPU::pla
pla(m) ==
    LET Popped(p) == Ret([p.m EXCEPT !.cpu.a = p.val, !.cpu.status = set_zn(@, p.val)], 4)
    IN Popped(pop(PullReads(m)))

\* mutant of PulledStatus: bit 4 of the popped byte is loaded into B
PulledStatusLoadsB(val) == BitOr(val, FLAG_U)

\* the status byte plp and rti load from a popped byte
PulledStatus(val) == BitOr(BitAnd(val, Not8(FLAG_B)), FLAG_U)

\* CPU::plp
plp(m) ==
    LET Popped(p) == Ret([p.m EXCEPT !.cpu.status = PulledStatus(p.val)], 4)
    IN Popped(pop(PullReads(m)))

\* CPU::rti
rti(m) ==
    LET Popped(p) ==
            LET Word(w) == Ret([w.m EXCEPT !.cpu.pc = w.val], 6)
            IN Word(pop_word([p.m EXCEPT !.cpu.status = PulledStatus(p.val)]))
    IN Popped(pop(PullReads(m)))

\* CPU::rts
rts(m) ==
    LET Word(w) == Ret(fetch([w.m EXCEPT !.cpu.pc = w.val]).m, 6)
    IN Word(pop_word(PullReads(m)))

\* CPU::sta
sta(m, e) ==
    LET Decoded(d) ==
            Ret(CpuBusWrite(IF d.extra = 0
                               /\ e.mode \in {"AbsoluteX", "AbsoluteY", "IndirectY"}
                            THEN CpuBusRead(d.m, d.addr).m ELSE d.m,
                            d.addr, m.cpu.a),
                e.cycles)
    IN Decoded(decode(m, e.mode))

\* CPU::stx / CPU::sty / CPU::sax: val is stored at the decoded address
store(m, e, val) ==
    LET Decoded(d) == Ret(CpuBusWrite(d.m, d.addr, val), e.cycles)
    IN Decoded(decode(m, e.mode))

\* CPU::trr
trr(m, e) ==
    LET value == RegGet(m.cpu, e.src)
    IN Ret([CpuBusRead(m, m.cpu.pc).m
                EXCEPT !.cpu = [RegSet(@, e.reg, value) EXCEPT !.status = set_zn(@, value)]],
           2)

\* CPU::tsx
tsx(m) ==
    Ret([CpuBusRead(m, m.cpu.pc).m
             EXCEPT !.cpu.x = m.cpu.sp % 256, !.cpu.status = set_zn(@, m.cpu.sp % 256)], 2)

\* CPU::txs
txs(m) == Ret([CpuBusRead(m, m.cpu.pc).m EXCEPT !.cpu.sp = m.cpu.x], 2)

\* the modes in which dcp / isb / slo / rla / srx / rra make a dummy read
UndocDummyModes == {"AbsoluteX", "AbsoluteY", "IndirectY"}

\* CPU::dcp
dcp(m, e) ==
    LET Operand(o) ==
            LET val == (o.val + 255) % 256
                a == o.m.cpu.a
            IN Ret([CpuBusWrite(o.m, o.addr, val)
                        EXCEPT !.cpu.status = set_zn(set_flag(@, FLAG_C, a >= val),
                                                     (a + 256 - val) % 256)],
                   e.cycles + o.extra)
    IN Operand(RmwRead(m, e.mode, UndocDummyModes, FALSE))

\* CPU::isb
isb(m, e) ==
    LET Operand(o) ==
            Ret([CpuBusWrite(o.m, o.addr, (o.val + 1) % 256)
                     EXCEPT !.cpu = SbcRegs(@, Not8((o.val + 1) % 256))],
                e.cycles + o.extra)
    IN Operand(RmwRead(m, e.mode, UndocDummyModes, FALSE))

\* CPU::slo
slo(m, e) ==
    LET Operand(o) ==
            LET val == (o.val * 2) % 256
                a == BitOr(o.m.cpu.a, val)
            IN Ret([CpuBusWrite(o.m, o.addr, val)
                        EXCEPT !.cpu.a = a,
                               !.cpu.status = set_zn(set_flag(@, FLAG_C, o.val >= 128), a)],
                   e.cycles + o.extra)
    IN Operand(RmwRead(m, e.mode, UndocDummyModes, FALSE))

\* CPU::rla
rla(m, e) ==
    LET Operand(o) ==
            LET val == BitOr((o.val * 2) % 256, IF get_flag(m.cpu, FLAG_C) THEN 1 ELSE 0)
                a == BitAnd(o.m.cpu.a, val)
            IN Ret([CpuBusWrite(o.m, o.addr, val)
                        EXCEPT !.cpu.a = a,
                               !.cpu.status = set_zn(set_flag(@, FLAG_C, o.val >= 128), a)],
                   e.cycles + o.extra)
    IN Operand(RmwRead(m, e.mode, UndocDummyModes, FALSE))

\* CPU::srx
srx(m, e) ==
    LET Operand(o) ==
            LET val == o.val \div 2
                a == BitXor(o.m.cpu.a, val)
            IN Ret([CpuBusWrite(o.m, o.addr, val)
                        EXCEPT !.cpu.a = a,
                               !.cpu.status = set_zn(set_flag(@, FLAG_C, o.val % 2 = 1), a)],
                   e.cycles + o.extra)
    IN Operand(RmwRead(m, e.mode, UndocDummyModes, FALSE))

\* CPU::rra
rra(m, e) ==
    LET Operand(o) ==
            LET val == BitOr(o.val \div 2, IF get_flag(m.cpu, FLAG_C) THEN 128 ELSE 0)
                carry == IF o.val % 2 = 1 THEN 1 ELSE 0
                sum == o.m.cpu.a + val + carry
                result == sum % 256
                v == BitAnd(BitAnd(BitXor(o.m.cpu.a, result), BitXor(val, result)), 128) # 0
            IN Ret([CpuBusWrite(o.m, o.addr, val)
                        EXCEPT !.cpu.a = result,
                               !.cpu.status = set_zn(set_flag(set_flag(@, FLAG_C, sum > 255),
                                                              FLAG_V, v), result)],
                   e.cycles + o.extra)
    IN Operand(RmwRead(m, e.mode, UndocDummyModes, FALSE))

\* the interrupt sequence of CPU::irq and CPU::nmi with its vector
Interrupt(m, vector) ==
    LET Pushed(m2) ==
            LET s == set_flag(set_flag(m2.cpu.status, FLAG_B, FALSE), FLAG_U, TRUE)
                Vector(v) == Ret([v.m EXCEPT !.cpu.pc = v.val], 7)
            IN Vector(read_word([push([m2 EXCEPT !.cpu.status = s], s)
                                     EXCEPT !.cpu.status = set_flag(@, FLAG_I, TRUE)],
                                vector))
    IN Pushed(push_word(CpuBusRead(m, m.cpu.sp + 256).m, m.cpu.pc))

\* CPU::irq
irq(m) == IF ~get_flag(m.cpu, FLAG_I) THEN Interrupt(m, 65534) ELSE Ret(m, 0)

\* mutant of nmi: the sequence takes the IRQ vector
nmi_irq_vector(m) == Interrupt(m, 65534)

\* CPU::nmi
nmi(m) == Interrupt(m, 65530)

\* the arm of the match an opcode selects; an opcode without an arm reaches
\* unreachable!() and the thread panics
Dispatch(m, opcode) ==
    IF opcode \notin Implemented THEN Ret([m EXCEPT !.panic = TRUE], 0)
    ELSE LET e == OpcodeTable[opcode]
             i == e.ins
         IN CASE i = "adc" -> adc(m, e)
              [] i \in {"and", "or", "xor"} -> Logic(m, e)
              [] i \in {"asl", "lsr", "rol", "ror"} -> shift(m, e)
              [] i = "brcnd" -> brcnd(m, e)
              [] i = "bit" -> bit(m, e)
              [] i = "brk" -> brk(m)
              [] i \in {"clf", "stf"} -> setclr(m, e)
              [] i = "cmp" -> cmp(m, e)
              [] i = "dec" -> incdec(m, e, 255)
              [] i = "inc" -> incdec(m, e, 1)
              [] i = "dec_reg" -> incdec_reg(m, e, 255)
              [] i = "inc_reg" -> incdec_reg(m, e, 1)
              [] i = "jmp" -> jmp(m, e)
              [] i = "jsr" -> jsr(m)
              [] i = "ldreg" -> ldreg(m, e)
              [] i = "nop" -> nop(m)
              [] i = "pha" -> pha(m)
              [] i = "php" -> php(m)
              [] i = "pla" -> pla(m)
              [] i = "plp" -> plp(m)
              [] i = "rti" -> rti(m)
              [] i = "rts" -> rts(m)
              [] i = "sbc" -> sbc(m, e)
              [] i = "sta" -> sta(m, e)
              [] i = "stx" -> store(m, e, m.cpu.x)
              [] i = "sty" -> store(m, e, m.cpu.y)
              [] i = "sax" -> store(m, e, BitAnd(m.cpu.a, m.cpu.x))
              [] i = "trr" -> trr(m, e)
              [] i = "tsx" -> tsx(m)
              [] i = "txs" -> txs(m)
              [] i = "lax" -> lax(m, e)
              [] i = "multibyte_nop" -> multibyte_nop(m, e)
              [] i = "dcp" -> dcp(m, e)
              [] i = "isb" -> isb(m, e)
              [] i = "slo" -> slo(m, e)
              [] i = "rla" -> rla(m, e)
              [] i = "srx" -> srx(m, e)
              [] i = "rra" -> rra(m, e)
              [] i = "halt" -> Ret(m, 0)

\* CPU::reset as a method on the machine
reset(m) ==
    LET Vector(v) == Ret([v.m EXCEPT !.cpu = CpuRegs(v.val)], 0)
    IN Vector(read_word(m, 65532))

\* the method a call runs: CPU::reset, CPU::nmi, CPU::irq, or the fetch and
\* the match of CPU::execute_instruction
Method(kind, m) ==
    CASE kind = "reset" -> reset(m)
      [] kind = "nmi" -> nmi(m)
      [] kind = "irq" -> irq(m)
      [] kind = "opcode" -> LET Fetched(f) == Dispatch(f.m, f.val) IN Fetched(fetch(m))

\* A method of the CPU run on the bus b from the registers cpu: its accesses
\* are performed on the bus one at a time, in the order the method makes them,
\* each read returning its byte to the method. served are the bytes returned
\* so far and n the accesses performed so far; r is the method on those
\* bytes. A panic of the bus ends the run at the access that panicked. The
\* result is the machine after the call (registers, bus, accesses, panic) and
\* the value returned.
RECURSIVE CpuRun(_, _, _, _, _)
CpuServe(kind, cpu, b, served, n, r) ==
    IF n = Len(r.m.acc) \/ b.panicked
    THEN [m |-> [cpu |-> r.m.cpu, bus |-> b, acc |-> SubSeq(r.m.acc, 1, n),
                 panic |-> r.m.panic \/ b.panicked],
          ret |-> r.ret]
    ELSE LET a == r.m.acc[n + 1]
         IN IF a[1] = "r"
            THEN LET Read(rd) == CpuRun(kind, cpu, rd.bus, Append(served, rd.val), n + 1)
                 IN Read(BusRead(b, a[2]))
            ELSE CpuRun(kind, cpu, BusWrite(b, a[2], a[3]), served, n + 1)

CpuRun(kind, cpu, b, served, n) ==
    CpuServe(kind, cpu, b, served, n, Method(kind, Machine(cpu, served)))

\* CPU::execute_instruction on the registers cpu and the bus b: the machine
\* after the step (registers, bus, the accesses made, panic) and the cycle
\* count returned
execute_instruction(cpu, b) ==
    LET kind == IF b.nmi_request THEN "nmi" ELSE IF b.irq THEN "irq" ELSE "opcode"
    IN CpuRun(kind, cpu,
              CASE kind = "nmi" -> [b EXCEPT !.nmi_request = FALSE]
                [] kind = "irq" -> [b EXCEPT !.irq = FALSE]
                [] kind = "opcode" -> b,
              <<>>, 0)

\* mutant of CpuReset: the X register is left as it was
CpuResetKeepsX(cpu, b) == [CpuRun("reset", cpu, b, <<>>, 0).m EXCEPT !.cpu.x = cpu.x]

\* CPU::reset on the bus b
CpuReset(cpu, b) == CpuRun("reset", cpu, b, <<>>, 0).m

\* Bus::tick_ppu(elapsed_cycles): PPU::step once per elapsed dot
RECURSIVE tick_ppu(_, _)
tick_ppu(b, elapsed_cycles) ==
    IF elapsed_cycles <= 0 THEN b
    ELSE LET Stepped(nb) ==
                \* the loop ends with the thread when a dot aborts
                IF nb.panicked THEN nb
                ELSE tick_ppu(nb, elapsed_cycles - 1)
         IN Stepped(TickDot(b))

\* ------------------------------------------------------------------------
\* Emulator::run and the frame hand-off
\* ------------------------------------------------------------------------
\* pixels of a frame (SCREEN_WIDTH * SCREEN_HEIGHT in the source)
FbPixels == 2

\* Emulator::new with DoubleBuffer::new, at the top of the frame loop of
\* Emulator::run with a cartridge loaded. Color::BLACK is 0; the pixels of the
\* n-th emulated frame are written as n.
EmuInit ==
    [ cpu |-> CpuRegs(0),   \* CPU::init: reset with no cartridge, the vector reads 0
      cartridge_loaded |-> FALSE,
      aborted |-> FALSE,    \* the emulator thread has panicked
      pc |-> "exec",        \* exec, tick, account, write, copy, swap_load, swap_store
      cycles |-> 0,         \* let mut cycles
      new_cycles |-> 0,     \* let new_cycles
      instr |-> [addr |-> -1, val |-> 0, cycles |-> 0],  \* the instruction executed last
      frames |-> 0,         \* frames emulated so far
      current_idx |-> 0,    \* DoubleBuffer::current_idx
      buffers |-> <<[i \in 1..FbPixels |-> 0], [i \in 1..FbPixels |-> 0]>>,
      w_idx |-> 0,          \* the buffer write_back_buffer handed to the closure
      w_pos |-> 0,          \* pixels copied so far by copy_from_slice
      old_idx |-> 0 ]       \* swap_buffers: let old_idx

\* the emulator after Emulator::load_cartridge succeeded
EmuLoaded == [EmuInit EXCEPT !.cartridge_loaded = TRUE]

\* Ui::run at the top of its loop
UiInit ==
    [ pc |-> "load",        \* load, read, present
      idx |-> 0,            \* the buffer of the slice read_front_buffer returned
      pos |-> 0,            \* pixels read so far by render_nes_framebuffer
      seen |-> <<>>,        \* the pixels read
      presents |-> 0 ]      \* frames presented so far

\* Emulator::run, `let new_cycles = self.cpu.execute_instruction()`: the CPU
\* executes one instruction of instrs, a store of val to addr (addr -1: no
\* store) taking the given number of cycles
ExecInstr(instrs) ==
    /\ emu.pc = "exec"
    /\ \E ins \in instrs :
        /\ bus' = IF ins.addr >= 0 THEN BusWrite(bus, ins.addr, ins.val) ELSE bus
        /\ emu' = [emu EXCEPT !.pc = "tick", !.new_cycles = ins.cycles, !.instr = ins]

\* Emulator::run, `self.cpu.bus.tick_ppu(new_cycles * 3)`
TickPpu ==
    /\ emu.pc = "tick"
    /\ \E b \in {tick_ppu(bus, emu.new_cycles * 3)} :
          /\ bus' = b
          /\ emu' = [emu EXCEPT !.pc = IF b.panicked THEN "exec" ELSE "account",
                                !.aborted = @ \/ b.panicked]
    /\ watch' = [watch EXCEPT !.dots = @ + emu.new_cycles * 3]
    /\ UNCHANGED ui

\* Emulator::run, `cycles += new_cycles + extra_cycles; extra_cycles = 0` and
\* the test of `while cycles < 29781`
Account ==
    /\ emu.pc = "account"
    /\ LET cycles == emu.cycles + emu.new_cycles + bus.extra_cycles
       IN emu' = [emu EXCEPT !.cycles = cycles,
                             !.pc = IF cycles < FrameCycles THEN "exec" ELSE "write"]
    /\ bus' = [bus EXCEPT !.extra_cycles = 0]
    /\ UNCHANGED <<ui, watch>>

\* DoubleBuffer::write_back_buffer: the index is loaded and the other buffer
\* handed to the closure
WriteBackBuffer ==
    /\ emu.pc = "write"
    /\ emu' = [emu EXCEPT !.pc = "copy", !.w_idx = 1 - emu.current_idx, !.w_pos = 0,
                          !.frames = @ + 1]
    /\ UNCHANGED <<bus, ui, watch>>

\* the closure's copy_from_slice, one pixel
CopyPixel ==
    /\ emu.pc = "copy"
    /\ emu' = [emu EXCEPT !.buffers[emu.w_idx + 1][emu.w_pos + 1] = emu.frames,
                          !.w_pos = @ + 1,
                          !.pc = IF emu.w_pos + 1 = FbPixels THEN "swap_load" ELSE @]
    /\ UNCHANGED <<bus, ui, watch>>

\* DoubleBuffer::swap_buffers, `let old_idx = current_idx.load(Acquire)`
SwapLoad ==
    /\ emu.pc = "swap_load"
    /\ emu' = [emu EXCEPT !.old_idx = emu.current_idx, !.pc = "swap_store"]
    /\ UNCHANGED <<bus, ui, watch>>

\* DoubleBuffer::swap_buffers, `current_idx.store(1 - old_idx, Release)`, and
\* the next iteration of the frame loop (`let mut cycles = 0`)
SwapStore ==
    /\ emu.pc = "swap_store"
    /\ emu' = [emu EXCEPT !.current_idx = 1 - emu.old_idx, !.pc = "exec", !.cycles = 0]
    /\ UNCHANGED <<bus, ui, watch>>

\* DoubleBuffer::read_front_buffer: the index is loaded, the slice returned
ReadFront ==
    /\ ui.pc = "load"
    /\ ui' = [ui EXCEPT !.pc = "read", !.idx = emu.current_idx, !.pos = 0, !.seen = <<>>]
    /\ UNCHANGED <<bus, emu, watch>>

\* Ui::render_nes_framebuffer, one pixel of the slice
ReadPixel ==
    /\ ui.pc = "read"
    /\ ui' = [ui EXCEPT !.seen = Append(@, emu.buffers[ui.idx + 1][ui.pos + 1]),
                        !.pos = @ + 1,
                        !.pc = IF ui.pos + 1 = FbPixels THEN "present" ELSE @]
    /\ UNCHANGED <<bus, emu, watch>>

\* Ui::run, canvas.copy and canvas.present, then the next iteration
Present ==
    /\ ui.pc = "present"
    /\ ui' = [ui EXCEPT !.pc = "load", !.presents = @ + 1]
    /\ UNCHANGED <<bus, emu, watch>>

\* A ROM file: whether it can be opened, its length in bytes, whether its
\* first four bytes are "NES\x1A", header bytes 4..7 and the PRG bytes that
\* differ from PrgByte
RomImage(exists, len, magic, prg_banks, chr_banks, flag6, flag7, prg_rom) ==
    [exists |-> exists, len |-> len, magic |-> magic, prg_banks |-> prg_banks,
     chr_banks |-> chr_banks, flag6 |-> flag6, flag7 |-> flag7, prg_rom |-> prg_rom]

\* Cartridge::from_bytes: the mapper id of the header
MapperId(img) == (img.flag6 \div 16) + (img.flag7 \div 16) * 16

\* Cartridge::from_bytes: Panic when an index or a slice leaves rom_data
from_bytes(img) ==
    LET offset == IF BitAnd(img.flag6, 4) # 0 THEN 16 + 512 ELSE 16
        prg_size == img.prg_banks * 16 * 1024
        chr_size == img.chr_banks * 8 * 1024
        mirror_mode == IF BitAnd(img.flag6, 8) = 0 /\ BitAnd(img.flag6, 1) # 0
                       THEN "Vertical" ELSE "Horizontal"
    IN IF img.len < 8 \/ offset + prg_size > img.len
            \/ offset + prg_size + chr_size > img.len
       THEN [result |-> "Panic"]
       ELSE [result |-> "Ok", mapper_id |-> MapperId(img),
             cart |-> [Cartridge(img.prg_banks, img.chr_banks, mirror_mode)
                           EXCEPT !.prg_rom = img.prg_rom]]

\* Cartridge::from_file: Err, Ok with the cartridge, or Panic
from_file(img) ==
    IF ~img.exists THEN [result |-> "Err"]
    ELSE IF img.len < 4 THEN [result |-> "Panic"]
    ELSE IF ~img.magic THEN [result |-> "Err"]
    ELSE from_bytes(img)

\* Mapper::with_cart: ids 2 and 4 reach todo!(), other ids unreachable!();
\* MMC1Cartridge::apply_banks divides by the PRG bank count
with_cart(cart, mapper_id) ==
    IF mapper_id = 0 THEN [panic |-> FALSE, mapper |-> Mapper0(cart)]
    ELSE IF mapper_id = 1 /\ cart.prg_len \div 16384 # 0
    THEN [panic |-> FALSE, mapper |-> Mapper1(cart)]
    ELSE [panic |-> TRUE, mapper |-> MapperNone]

\* Emulator::load_cartridge: the emulator and the bus afterwards
load_cartridge(e, b, img) ==
    LET f == from_file(img)
    IN IF f.result = "Err" THEN [emu |-> e, bus |-> b]
       ELSE IF f.result = "Panic" THEN [emu |-> [e EXCEPT !.aborted = TRUE], bus |-> b]
       ELSE LET w == with_cart(f.cart, f.mapper_id)
            IN IF w.panic THEN [emu |-> [e EXCEPT !.aborted = TRUE], bus |-> b]
               ELSE LET Reset(r) ==
                            IF r.bus.panicked
                            THEN [emu |-> [e EXCEPT !.aborted = TRUE], bus |-> r.bus]
                            ELSE [emu |-> [e EXCEPT !.cpu = r.cpu,
                                                    !.cartridge_loaded = TRUE],
                                  bus |-> r.bus]
                    IN Reset(CpuReset(e.cpu, BusLoadCartridge(b, w.mapper)))

\* Emulator::run, `let new_cycles = self.cpu.execute_instruction()`
ExecCpu ==
    /\ emu.pc = "exec" /\ emu.cartridge_loaded /\ ~emu.aborted
    /\ \E r \in {execute_instruction(emu.cpu, bus)} :
       LET op == IF bus.nmi_request THEN "nmi" ELSE IF bus.irq THEN "irq" ELSE "opcode"
           opcode == IF op = "opcode" THEN BusRead(bus, emu.cpu.pc).val ELSE -1
       IN /\ bus' = r.m.bus
          /\ emu' = [emu EXCEPT !.cpu = r.m.cpu, !.aborted = r.m.panic,
                                !.new_cycles = r.ret,
                                !.pc = IF r.m.panic THEN "exec" ELSE "tick"]
          /\ watch' = [watch EXCEPT !.steps = @ + 1, !.acc = r.m.acc, !.pre = emu.cpu,
                                    !.op = op, !.opcode = opcode,
                                    !.halted = @ \/ opcode = 50]
    /\ UNCHANGED ui

\* ------------------------------------------------------------------------
\* Observer
\* ------------------------------------------------------------------------
WatchInit ==
    [ since_vblank |-> -1,  \* dot steps since the last setting of VBlank, -1: none yet
      frame_dots |-> 0,     \* dot steps between the last two settings, 0: fewer than two
      line_dots |-> 0,      \* dot steps taken in the current scanline
      last_line |-> 0,      \* dot steps the last completed scanline took, 0: none yet
      last_phase |-> "none", \* phase of the last completed scanline
      ops |-> 0,            \* operations issued so far
      last_addr |-> -1,     \* address of the last bus write, -1: none yet
      last_val |-> 0,       \* byte of the last bus write
      op |-> "none",        \* kind of the last operation
      ret |-> 0,            \* byte returned by the last bus read
      pre_latch |-> FALSE,  \* the write toggle before the last operation
      mapper_ops |-> 0,     \* mapper register writes issued so far
      wrote_mode |-> "none", \* mirror mode in force at the last PPU memory write
      total |-> 0,          \* dot steps since power-on, counted up to MaxEnableDot
      win |-> -1,           \* dot steps since PPUCTRL bit 7 was set, -1: not set yet
      nmi_asserts |-> 0,    \* times PPU::step raised the NMI line since then
      bits |-> <<>>,        \* bit 0 of the MMC1 writes since the last commit or reset
      committed |-> <<>>,   \* the five bits of the last MMC1 commit
      commits |-> 0,        \* MMC1 commits so far
      steps |-> 0,          \* calls of CPU::execute_instruction so far
      acc |-> <<>>,         \* the bus accesses of the last call
      pre |-> CpuRegs(0),   \* the registers before the last call
      img |-> <<>>,         \* the ROM file of the last load
      loads |-> 0,          \* loads so far
      opcode |-> -1,        \* the opcode byte the last call fetched, -1: none
      halted |-> FALSE,     \* opcode 0x32 has been executed
      dots |-> 0,           \* dot steps Bus::tick_ppu was asked for since power-on
      latched |-> -1,       \* the button byte at the last latch, -1: none yet
      reads |-> <<>>,       \* the bits read from 0x4016 since the last latch
      irqs |-> 0,           \* assertions of the IRQ line so far
      dropped |-> -1,       \* partial MMC1 bits the last bit-7 write discarded, -1: none
      eval_oam |-> ZeroMem  \* OAM as it was at the last sprite evaluation
    ]

\* ------------------------------------------------------------------------
\* SpecPPU: the dot state machine from power-on, rendering disabled
\* ------------------------------------------------------------------------
InitPPU ==
    /\ bus = BusInit
    /\ emu = EmuInit
    /\ ui = UiInit
    /\ watch = WatchInit

PPUStep ==
    LET b == TickDot(bus)
        sets == SetsVBlank(bus.ppu)
        ends == b.ppu.current_phase # bus.ppu.current_phase
                    \/ b.ppu.scanline # bus.ppu.scanline
    IN /\ bus' = b
       /\ watch' = [watch EXCEPT
            !.since_vblank = IF sets THEN 0 ELSE IF @ < 0 THEN @ ELSE @ + 1,
            !.frame_dots = IF sets /\ watch.since_vblank >= 0
                           THEN watch.since_vblank + 1 ELSE @,
            !.line_dots = IF ends THEN 0 ELSE @ + 1,
            !.last_line = IF ends THEN watch.line_dots + 1 ELSE @,
            !.last_phase = IF ends THEN bus.ppu.current_phase ELSE @]
       /\ UNCHANGED <<emu, ui>>

NextPPU == PPUStep

SpecPPU == InitPPU /\ [][NextPPU]_vars

\* C1: with rendering disabled, two consecutive settings of the VBlank status
\* bit are 262 x 341 = 89342 dot steps apart, and every scanline that has
\* completed (pre-render, visible, post-render, VBlank) took 341 dot steps.
C1_FrameIs262x341 ==
    /\ watch.frame_dots # 0 => watch.frame_dots = 262 * 341
    /\ watch.last_line # 0 => watch.last_line = 341

\* ------------------------------------------------------------------------
\* SpecRam: CPU writes to work RAM and its mirrors
\* ------------------------------------------------------------------------
\* number of bus writes explored
MaxRamWrites == 2

\* CPU addresses written: work RAM cells, their mirrors, and one PPU register
RamAddrs == {0, 1, 2047, 2048, 2049, 4096, 6143, 8191, 8195}
RamVals == {0, 90, 255}

InitRam ==
    /\ bus = BusInit
    /\ emu = EmuInit
    /\ ui = UiInit
    /\ watch = [WatchInit EXCEPT !.ops = 0]

CpuWrite ==
    /\ watch.ops < MaxRamWrites
    /\ \E addr \in RamAddrs, val \in RamVals :
        /\ bus' = BusWrite(bus, addr, val)
        /\ watch' = [watch EXCEPT !.ops = @ + 1, !.last_addr = addr, !.last_val = val]
        /\ UNCHANGED <<emu, ui>>

NextRam == CpuWrite

SpecRam == InitRam /\ [][NextRam]_vars

\* C2: after a write of b to x in 0x0000..0x1FFF every address of the range
\* with the same low 11 bits reads b, and read(x) = read(x & 0x07FF) for every
\* x of the range.
C2_RamMirrored ==
    /\ watch.last_addr \in 0..8191 =>
         \A k \in 0..3 :
            BusRead(bus, (watch.last_addr % 2048) + k * 2048).val = watch.last_val
    /\ \A x \in 0..8191 : BusRead(bus, x).val = BusRead(bus, x % 2048).val

\* C2 witness: a byte written through a mirror is read at the base address
C2_Witness ==
    /\ watch.last_addr = 6143
    /\ watch.last_val = 90
    /\ BusRead(bus, 2047).val = 90

\* ------------------------------------------------------------------------
\* SpecReg: CPU accesses to the PPU register window 0x2000..0x3FFF
\* ------------------------------------------------------------------------
\* number of register accesses explored
MaxRegOps == 2

\* PPUSTATUS values the dot machine produces: 0 at power-on, sprite overflow
\* after the first visible scanline (OAM all zero), VBlank with and without it
StatusValues == {0, 32, 128, 160}

\* CPU addresses accessed: the eight registers and mirrors of them
RegAddrs == (8192..8199) \cup {8200, 8202, 8205, 16378, 16383}
RegVals == {0, 5, 128, 63}

\* an NROM cartridge with one PRG bank and CHR RAM
NromChrRam(mirror_mode) == Mapper0(Cartridge(1, 0, mirror_mode))

InitReg ==
    /\ \E st \in StatusValues :
         bus = [BusLoadCartridge(BusInit, NromChrRam("Horizontal")) EXCEPT !.ppu.status = st]
    /\ emu = EmuLoaded
    /\ ui = UiInit
    /\ watch = WatchInit

RegWrite ==
    /\ watch.ops < MaxRegOps
    /\ \E addr \in RegAddrs, val \in RegVals :
        /\ bus' = BusWrite(bus, addr, val)
        /\ watch' = [watch EXCEPT !.ops = @ + 1, !.op = "write", !.last_addr = addr,
                                  !.last_val = val,
                                  !.pre_latch = bus.ppu.address_latch]
        /\ UNCHANGED <<emu, ui>>

RegRead ==
    /\ watch.ops < MaxRegOps
    /\ \E addr \in RegAddrs :
        LET r == BusRead(bus, addr)
        IN /\ bus' = r.bus
           /\ watch' = [watch EXCEPT !.ops = @ + 1, !.op = "read", !.last_addr = addr,
                                     !.ret = r.val,
                                     !.pre_latch = bus.ppu.address_latch]
           /\ UNCHANGED <<emu, ui>>

NextReg == RegWrite \/ RegRead

SpecReg == InitReg /\ [][NextReg]_vars

\* C3: for every x in 0x2000..0x3FFF a bus read of x and a bus write of x act
\* as the same access made at 0x2000 + (x & 7): same returned byte, same
\* resulting state.
C3_RegisterWindowMirrored ==
    \A x \in 8192..16383 :
        /\ BusRead(bus, x) = BusRead(bus, 8192 + (x % 8))
        /\ \A val \in RegVals : BusWrite(bus, x, val) = BusWrite(bus, 8192 + (x % 8), val)

\* C5: a CPU read of PPUSTATUS returns the status byte as it was before the
\* read, clears the VBlank bit and resets the write toggle.
C5_StatusReadClears ==
    [][ (watch'.ops # watch.ops /\ watch'.op = "read" /\ watch'.last_addr = 8194)
        => /\ watch'.ret = bus.ppu.status
           /\ bus'.ppu.status % 256 < 128
           /\ bus'.ppu.address_latch = FALSE ]_vars

\* C5 witness: PPUSTATUS was read with VBlank set and the write toggle at 1
C5_Witness ==
    /\ watch.op = "read" /\ watch.last_addr = 8194
    /\ watch.ret >= 128 /\ watch.pre_latch
    /\ bus.ppu.status < 128 /\ ~bus.ppu.address_latch

\* C29: PPUSCROLL and PPUADDR share the write toggle w. In any interleaving
\* a write to either acts as the first write when w = 0 and as the second
\* when w = 1, then flips w; a PPUSTATUS read forces w = 0; only the second
\* PPUADDR write copies t into v.
C29_SharedWriteToggle ==
    [][ (watch'.ops # watch.ops) =>
        LET a == watch'.last_addr
            val == watch'.last_val
            wr == watch'.op = "write"
            w == bus.ppu.address_latch
            t == bus.ppu.tmp_vram_addr
            p1 == bus'.ppu
        IN /\ (wr /\ a \in {8197, 8198}) => p1.address_latch = ~w
           /\ (wr /\ a = 8197 /\ ~w) =>
                 /\ p1.scroll_x = val /\ p1.fine_x = val % 8
                 /\ p1.tmp_vram_addr = t - (t % 32) + (val \div 8)
                 /\ p1.scroll_y = bus.ppu.scroll_y
           /\ (wr /\ a = 8197 /\ w) =>
                 /\ p1.scroll_y = val
                 /\ (p1.tmp_vram_addr \div 4096) % 8 = val % 8
                 /\ (p1.tmp_vram_addr \div 32) % 32 = val \div 8
                 /\ p1.scroll_x = bus.ppu.scroll_x /\ p1.fine_x = bus.ppu.fine_x
           /\ (wr /\ a = 8198 /\ ~w) => p1.tmp_vram_addr = val * 256 + (t % 256)
           /\ (wr /\ a = 8198 /\ w) =>
                 /\ p1.tmp_vram_addr = t - (t % 256) + val
                 /\ p1.vram_addr = p1.tmp_vram_addr
           /\ (~wr /\ a % 8 = 2) => ~p1.address_latch
           /\ ~(wr /\ a = 8198 /\ w) => p1.vram_addr = bus.ppu.vram_addr ]_vars

\* C29 witness: PPUSCROLL was written at w = 0 (scroll_x is set), then
\* PPUADDR at w = 1 acted as the second write: t went to v and w is 0 again
C29_Witness ==
    /\ watch.op = "write" /\ watch.last_addr = 8198 /\ watch.pre_latch
    /\ bus.ppu.scroll_x # 0
    /\ ~bus.ppu.address_latch
    /\ bus.ppu.vram_addr = bus.ppu.tmp_vram_addr /\ bus.ppu.vram_addr % 256 = watch.last_val
    /\ watch.last_val # 0

\* ------------------------------------------------------------------------
\* SpecPalette: PPU memory writes to palette RAM
\* ------------------------------------------------------------------------
\* number of PPU memory writes explored
MaxPaletteWrites == 2

\* PPU addresses written: the four aliased pairs, two plain entries, mirrors
PaletteAddrs == {16128, 16132, 16136, 16140, 16144, 16148, 16152, 16156,
                 16129, 16145, 16160, 16176, 32528}
PaletteVals == {0, 22, 63}

InitPalette ==
    /\ bus = BusLoadCartridge(BusInit, NromChrRam("Horizontal"))
    /\ emu = EmuLoaded
    /\ ui = UiInit
    /\ watch = WatchInit

\* PPU::write, called by write_register(0x2007) with addr = ppu_addr
PaletteWrite ==
    /\ watch.ops < MaxPaletteWrites
    /\ \E addr \in PaletteAddrs, val \in PaletteVals :
        LET w == PPUWrite(bus.ppu, bus.cartridge, addr, val)
        IN /\ bus' = [bus EXCEPT !.ppu = w.ppu, !.cartridge = w.mapper]
           /\ watch' = [watch EXCEPT !.ops = @ + 1, !.op = "ppu_write",
                                     !.last_addr = addr, !.last_val = val]
           /\ UNCHANGED <<emu, ui>>

NextPalette == PaletteWrite

SpecPalette == InitPalette /\ [][NextPalette]_vars

\* C4: a PPU read at 0x3F10/14/18/1C returns what a read at 0x3F00/04/08/0C
\* returns, and a write to either address of a pair is read back through both.
C4_PaletteAliases ==
    \A k \in 0..3 :
        LET lo == 16128 + 4 * k
            hi == 16144 + 4 * k
        IN /\ PPURead(bus.ppu, bus.cartridge, hi) = PPURead(bus.ppu, bus.cartridge, lo)
           /\ watch.last_addr \in {lo, hi} =>
                /\ PPURead(bus.ppu, bus.cartridge, lo) = watch.last_val
                /\ PPURead(bus.ppu, bus.cartridge, hi) = watch.last_val

\* C4 witness: a byte written at 0x3F10 is read at 0x3F00
C4_Witness ==
    /\ watch.last_addr = 16144 /\ watch.last_val = 22
    /\ PPURead(bus.ppu, bus.cartridge, 16128) = 22

\* ------------------------------------------------------------------------
\* SpecMirror: nametable accesses under the cartridge's mirror mode
\* ------------------------------------------------------------------------
\* number of PPU memory writes and of MMC1 control writes explored
MaxVramWrites == 2
MaxMirrorWrites == 10

MirrorModes == {"Vertical", "Horizontal", "SingleScreenA", "SingleScreenB"}

\* PPU addresses written and read: the four nametables, a mirror above 0x3000
VramAddrs == {8192, 9216, 10240, 11264, 11269, 12288}
VramProbe == VramAddrs \cup {8197, 9221, 10245, 13312, 14336, 15360, 16127}
VramVals == {170, 187}

\* an MMC1 cartridge with two PRG banks and CHR RAM
Mmc1ChrRam == Mapper1(Cartridge(2, 0, "Horizontal"))

InitMirror ==
    /\ \E m \in {NromChrRam("Vertical"), NromChrRam("Horizontal"), Mmc1ChrRam} :
         bus = BusLoadCartridge(BusInit, m)
    /\ emu = EmuLoaded
    /\ ui = UiInit
    /\ watch = WatchInit

\* PPU::write, called by write_register(0x2007) with addr = ppu_addr
VramWrite ==
    /\ watch.ops < MaxVramWrites
    /\ \E addr \in VramAddrs, val \in VramVals :
        LET w == PPUWrite(bus.ppu, bus.cartridge, addr, val)
        IN /\ bus' = [bus EXCEPT !.ppu = w.ppu, !.cartridge = w.mapper]
           /\ watch' = [watch EXCEPT !.ops = @ + 1, !.op = "ppu_write",
                                     !.last_addr = addr, !.last_val = val,
                                     !.wrote_mode = get_mirror_mode(bus.cartridge)]
           /\ UNCHANGED <<emu, ui>>

\* a CPU write of one bit to the MMC1 control register (control values 0..3)
MirrorWrite ==
    /\ bus.cartridge.kind = "Mapper1"
    /\ watch.mapper_ops < MaxMirrorWrites
    /\ \E lsb \in {0, 1} :
        /\ bus.cartridge.shift_count >= 2 => lsb = 0
        /\ bus' = BusWrite(bus, 32768, lsb)
        /\ watch' = [watch EXCEPT !.mapper_ops = @ + 1, !.op = "mapper_write"]
        /\ UNCHANGED <<emu, ui>>

NextMirror == VramWrite \/ MirrorWrite

SpecMirror == InitMirror /\ [][NextMirror]_vars

\* the physical VRAM index the claim gives for a nametable address
NtPhysical(mode, addr) ==
    LET offset == addr % 4096
        nt_idx == offset \div 1024
        inner == offset % 1024
    IN CASE mode = "Vertical" -> (nt_idx % 2) * 1024 + inner
         [] mode = "Horizontal" -> (nt_idx \div 2) * 1024 + inner
         [] mode = "SingleScreenA" -> inner
         [] mode = "SingleScreenB" -> 1024 + inner

\* C9, state part: in every mode the mapping of 0x2000..0x3EFF is the claimed
\* one; a read uses the mode in force; the byte last written is read back at
\* every address that shares its physical cell (0x2800 for 0x2000 under
\* Vertical, 0x2400 for 0x2000 under Horizontal).
C9_MirrorState ==
    LET mode == get_mirror_mode(bus.cartridge)
    IN /\ watch.ops = 0 /\ watch.mapper_ops = 0 =>
            \A md \in MirrorModes, addr \in 8192..16127 :
                mirror_vram_addr(NromChrRam(md), addr) = NtPhysical(md, addr)
       /\ \A y \in VramProbe :
            /\ PPURead(bus.ppu, bus.cartridge, y) = Get(bus.ppu.vram, NtPhysical(mode, y))
            /\ (watch.op = "ppu_write"
                    /\ NtPhysical(mode, y) = NtPhysical(mode, watch.last_addr))
                => PPURead(bus.ppu, bus.cartridge, y) = watch.last_val
       /\ (watch.op = "ppu_write" /\ watch.last_addr = 8192 /\ mode = "Vertical")
            => PPURead(bus.ppu, bus.cartridge, 10240) = watch.last_val
       /\ (watch.op = "ppu_write" /\ watch.last_addr = 8192 /\ mode = "Horizontal")
            => PPURead(bus.ppu, bus.cartridge, 9216) = watch.last_val

\* C9, step part: a write changes exactly the physical cell that the mode in
\* force at the time of the write gives.
C9_MirrorStep ==
    (watch'.ops # watch.ops /\ watch'.op = "ppu_write")
        => bus'.ppu.vram = Put(bus.ppu.vram,
                               NtPhysical(get_mirror_mode(bus.cartridge), watch'.last_addr),
                               watch'.last_val)

\* C9: nametable addresses map to the 2 KiB VRAM by the current mirror mode
C9_NametableMirroring == []C9_MirrorState /\ [][C9_MirrorStep]_vars

\* C9 witness: a byte written at 0x2000 under Vertical is, after the cartridge
\* switched to Horizontal, read at 0x2400 and no longer at 0x2800
C9_Witness ==
    /\ watch.wrote_mode = "Vertical" /\ watch.last_addr = 8192 /\ watch.last_val = 170
    /\ get_mirror_mode(bus.cartridge) = "Horizontal"
    /\ PPURead(bus.ppu, bus.cartridge, 9216) = 170
    /\ PPURead(bus.ppu, bus.cartridge, 10240) = 0

\* ------------------------------------------------------------------------
\* SpecNmi: the dot machine with PPUCTRL bit 7 set shortly after power-on,
\* followed for one frame of CPU time (three dots per CPU cycle)
\* ------------------------------------------------------------------------
WindowDots == 3 * FrameCycles

InitNmi ==
    /\ bus = BusLoadCartridge(BusInit, NromChrRam("Horizontal"))
    /\ emu = EmuLoaded
    /\ ui = UiInit
    /\ watch = WatchInit

\* a CPU write of 0x80 to PPUCTRL
EnableNmi ==
    /\ watch.win = -1
    /\ bus' = BusWrite(bus, 8192, 128)
    /\ watch' = [watch EXCEPT !.win = 0]
    /\ UNCHANGED <<emu, ui>>

\* one dot; the window ends after WindowDots dots
NmiDot ==
    /\ watch.win < WindowDots
    /\ watch.win = -1 => watch.total < MaxEnableDot
    /\ bus' = TickDot(bus)
    /\ watch' = [watch EXCEPT
         !.total = IF watch.win = -1 THEN @ + 1 ELSE @,
         !.win = IF @ >= 0 THEN @ + 1 ELSE @,
         !.nmi_asserts =
            IF watch.win >= 0 /\ SetsVBlank(bus.ppu)
                 /\ BitAnd(bus.ppu.control, GenerateInterrupt) # 0
            THEN @ + 1 ELSE @]
    /\ UNCHANGED <<emu, ui>>

NextNmi == EnableNmi \/ NmiDot

SpecNmi == InitNmi /\ [][NextNmi]_vars

\* C6: with PPUCTRL bit 7 set and unchanged, a window of 29781 CPU cycles
\* (89343 dots) after the enabling sees the NMI line raised exactly once, and
\* at its end the VBlank status bit is set.
C6_OneNmiPerFrameWindow ==
    watch.win = WindowDots =>
        /\ watch.nmi_asserts = 1
        /\ BitAnd(bus.ppu.status, VBlankFlag) # 0

\* ------------------------------------------------------------------------
\* SpecMmc1: CPU writes to the MMC1 registers
\* ------------------------------------------------------------------------
\* number of register commits explored
MaxCommits == 2

\* CPU addresses written: the PRG bank register (two addresses) and control
Mmc1Addrs == {57344, 65535, 32768}
\* bytes written: bit 0 clear / set with other low bits, and a reset (bit 7)
Mmc1Vals == {0, 1, 2, 3, 128}

InitMmc1 ==
    /\ \E c \in {Cartridge(2, 0, "Horizontal"), Cartridge(16, 2, "Vertical")} :
         bus = BusLoadCartridge(BusInit, Mapper1(c))
    /\ emu = EmuLoaded
    /\ ui = UiInit
    /\ watch = WatchInit

Mmc1Write ==
    /\ watch.commits < MaxCommits
    /\ \E addr \in Mmc1Addrs, val \in Mmc1Vals :
        LET shifted == Append(watch.bits, val % 2)
        IN /\ bus' = BusWrite(bus, addr, val)
           /\ watch' = [watch EXCEPT
                !.op = "mapper_write", !.last_addr = addr, !.last_val = val,
                !.bits = IF val >= 128 \/ Len(shifted) = 5 THEN <<>> ELSE shifted,
                !.committed = IF val < 128 /\ Len(shifted) = 5 THEN shifted ELSE @,
                !.commits = IF val < 128 /\ Len(shifted) = 5 THEN @ + 1 ELSE @,
                !.dropped = IF val >= 128 THEN Len(watch.bits) ELSE -1]
           /\ UNCHANGED <<emu, ui>>

NextMmc1 == Mmc1Write

SpecMmc1 == InitMmc1 /\ [][NextMmc1]_vars

\* the 5-bit value assembled from five bit-0 values, first write least significant
Val5(b) == b[1] + 2 * b[2] + 4 * b[3] + 8 * b[4] + 16 * b[5]

\* a step that is the fifth consecutive bit-7-clear write, to 0xE000-0xFFFF
PrgCommitStep ==
    /\ watch'.commits = watch.commits + 1
    /\ watch'.last_addr >= 57344

\* C7 as stated: the fifth write leaves the PRG bank selector equal to the
\* 5-bit value assembled from the five bit-0 values (0x15 for 1,0,1,0,1).
C7_PrgBankIsFiveBitValue ==
    [][PrgCommitStep => bus'.cartridge.prg_bank = Val5(watch'.committed)]_vars

\* C7 amended, step part: the fifth write leaves the PRG bank selector equal to
\* the low four bits of the assembled value, the shift register back in its
\* initial state and the bank offsets recomputed; a bit-7-clear write that is
\* not the fifth changes no register.
C7_CommitStep ==
    LET m == bus.cartridge
        n == bus'.cartridge
    IN /\ PrgCommitStep =>
            /\ n.prg_bank = Val5(watch'.committed) % 16
            /\ n.shift_reg = 16 /\ n.shift_count = 0
            /\ apply_banks(n) = n
            /\ BitAnd(n.control \div 4, 3) = 3 =>
                 n.prg_bank_offsets[1] = (n.prg_bank % (n.cart.prg_len \div 16384)) * 16384
       /\ (watch' # watch /\ watch'.last_val < 128 /\ watch'.commits = watch.commits) =>
            /\ n.prg_bank = m.prg_bank /\ n.control = m.control
            /\ n.prg_bank_offsets = m.prg_bank_offsets

\* C7 amended, state part: the shift count is the number of bit-7-clear writes
\* since the last commit or reset, so every commit takes exactly five writes.
C7_ShiftCount ==
    /\ bus.cartridge.shift_count = Len(watch.bits)
    /\ Len(watch.bits) < 5

\* C7 amended: the PRG bank selector takes the low four bits of the value
C7_PrgBankIsLowFourBits == []C7_ShiftCount /\ [][C7_CommitStep]_vars

\* C7 witness: the bits 1,0,1,0,1 were committed at 0xE000 a second time
C7_Witness ==
    /\ watch.commits = 2 /\ watch.committed = <<1, 0, 1, 0, 1>>
    /\ watch.last_addr = 57344
    /\ bus.cartridge.prg_bank = 5
    /\ bus.cartridge.shift_reg = 16 /\ bus.cartridge.shift_count = 0

\* the banks the two 16 KiB windows show according to the banking modes as
\* stated: modes 0 and 1 the pair picked by the PRG bank with bit 0 ignored,
\* mode 2 bank 0 and the picked bank, mode 3 the picked bank and the last bank
StatedBanks(m) ==
    LET count == m.cart.prg_len \div 16384
        mode == BitAnd(m.control \div 4, 3)
        pair == BitAnd(m.prg_bank, 14) % count
    IN CASE mode < 2 -> <<pair, pair + 1>>
         [] mode = 2 -> <<0, m.prg_bank % count>>
         [] mode = 3 -> <<m.prg_bank % count, count - 1>>

\* first and last offset inside a 16 KiB window
WindowProbe == {0, 16383}

\* C35: MMC1 PRG banking follows control bits 2-3: modes 0 and 1 map the
\* 32 KiB pair picked by the PRG bank with bit 0 ignored; mode 2 fixes
\* 0x8000-0xBFFF to bank 0 and maps the picked bank at 0xC000-0xFFFF; mode 3
\* maps the picked bank at 0x8000-0xBFFF and fixes 0xC000-0xFFFF to the last bank.
C35_PrgBanking ==
    LET m == bus.cartridge
        b == StatedBanks(m)
    IN \A k \in WindowProbe :
         /\ cpu_read(m, 32768 + k) = PrgByte(b[1] * 16384 + k)
         /\ cpu_read(m, 49152 + k) = PrgByte(b[2] * 16384 + k)

\* C36, step part: a bit-7 write puts the shift register back to 0x10 with
\* count 0, ORs 0x0C into control and changes nothing else of control and no
\* bank register; a bit-7-clear write that is not the fifth since then changes
\* no register.
C36_ResetStep ==
    LET m == bus.cartridge
        n == bus'.cartridge
    IN /\ (watch' # watch /\ watch'.last_val >= 128) =>
            /\ watch'.dropped = m.shift_count
            /\ n.shift_reg = 16 /\ n.shift_count = 0
            /\ n.control = BitOr(m.control, 12)
            /\ BitAnd(n.control, 19) = BitAnd(m.control, 19)
            /\ n.prg_bank = m.prg_bank /\ n.chr_banks = m.chr_banks
       /\ (watch' # watch /\ watch'.last_val < 128 /\ Len(watch.bits) < 4) =>
            /\ n.shift_count = m.shift_count + 1
            /\ n.control = m.control
            /\ n.prg_bank = m.prg_bank /\ n.chr_banks = m.chr_banks

\* C36, state part: the count is the number of bit-7-clear writes since the
\* last bit-7 write or commit
C36_CountSinceReset ==
    /\ bus.cartridge.shift_count = Len(watch.bits)
    /\ watch.dropped >= 0 => bus.cartridge.shift_reg = 16

\* C36: a write with bit 7 set to 0x8000-0xFFFF, after 0 to 4 partial shift
\* writes, discards the partial bits (shift register 0x10, count 0), ORs
\* control with 0x0C and changes no bank register and no other control bit; the
\* next commit takes five further bit-7-clear writes.
C36_ResetDiscardsPartialBits == []C36_CountSinceReset /\ [][C36_ResetStep]_vars

\* C36 witness: control was committed as 1, four more bits were shifted in,
\* and a bit-7 write dropped them and left control 0x0D
C36_Witness ==
    /\ watch.dropped = 4 /\ watch.last_val = 128 /\ watch.commits = 1
    /\ watch.committed = <<1, 0, 0, 0, 0>>
    /\ bus.cartridge.control = 13
    /\ bus.cartridge.shift_reg = 16 /\ bus.cartridge.shift_count = 0

\* ------------------------------------------------------------------------
\* SpecDma: the frame loop running stores to RAM, OAMADDR and OAMDMA
\* ------------------------------------------------------------------------
\* number of instructions explored
MaxInstr == 3

\* STA absolute (4 cycles) to two RAM cells (one through a mirror), to OAMADDR,
\* and to OAMDMA with a RAM page, a mirror of it, a PRG ROM page and a page of
\* the unmapped range
DmaProgram ==
    {[addr |-> 512, val |-> 17, cycles |-> 4], [addr |-> 2815, val |-> 254, cycles |-> 4]}
    \cup {[addr |-> 8195, val |-> v, cycles |-> 4] : v \in {5, 255}}
    \cup {[addr |-> 16404, val |-> page, cycles |-> 4] : page \in {2, 10, 128, 64}}

InitDma ==
    /\ bus = BusLoadCartridge(BusInit, NromChrRam("Horizontal"))
    /\ emu = EmuLoaded
    /\ ui = UiInit
    /\ watch = WatchInit

DmaExec ==
    /\ watch.ops < MaxInstr
    /\ ExecInstr(DmaProgram)
    /\ watch' = [watch EXCEPT !.ops = @ + 1]
    /\ UNCHANGED ui

NextDma == DmaExec \/ TickPpu \/ Account

SpecDma == InitDma /\ [][NextDma]_vars

\* C8, step part
C8_DmaStep ==
    /\ (emu.pc = "exec" /\ emu'.pc = "tick" /\ emu'.instr.addr = 16404) =>
         /\ \A i \in 0..255 :
               Get(bus'.ppu.oam_ram, (bus.ppu.oam_addr + i) % 256)
                   = BusRead(bus, emu'.instr.val * 256 + i).val
         /\ bus'.extra_cycles = 513
    /\ (emu.pc = "account" /\ emu'.pc # "account") =>
         /\ emu'.cycles = emu.cycles + emu.new_cycles
                              + (IF emu.instr.addr = 16404 THEN 513 ELSE 0)
         /\ bus'.extra_cycles = 0

\* C8: a write of P to 0x4014 with OAMADDR a leaves OAM[(a + i) mod 256] equal
\* to the byte at CPU address P * 0x100 + i for i = 0..255 and sets
\* bus.extra_cycles to 513; the frame loop adds these 513 cycles, once, to its
\* cycle count.
C8_OamDmaCopiesAndStalls == [][C8_DmaStep]_vars

\* C8 witness: 0x11 stored at 0x0200, OAMADDR set to 5, page 2 copied: OAM[5]
\* holds 0x11 and the loop has counted 3 * 4 + 513 cycles
C8_Witness ==
    /\ emu.pc = "exec" /\ emu.instr = [addr |-> 16404, val |-> 2, cycles |-> 4]
    /\ bus.ppu.oam_addr = 5
    /\ Get(bus.ppu.oam_ram, 5) = 17
    /\ emu.cycles = 525 /\ bus.extra_cycles = 0

\* C16: at every iteration boundary of the frame loop the PPU dots stepped are
\* three times the CPU cycles accumulated, the 513 cycles of an OAM DMA included.
C16_ThreeDotsPerCycle == emu.pc = "exec" => watch.dots = 3 * emu.cycles

\* ------------------------------------------------------------------------
\* SpecFB: the emulator thread handing frames to the presenter thread
\* ------------------------------------------------------------------------
\* frames emulated and frames presented
MaxFrames == 2
MaxPresents == 2

\* the program run: a loop of STA 0x4014 (4 cycles and the 513 of the stall)
IdleProgram == {[addr |-> 16404, val |-> 2, cycles |-> 4]}

InitFB ==
    /\ bus = BusLoadCartridge(BusInit, NromChrRam("Horizontal"))
    /\ emu = EmuLoaded
    /\ ui = UiInit
    /\ watch = WatchInit

IdleExec ==
    /\ emu.frames < MaxFrames
    /\ ExecInstr(IdleProgram)
    /\ UNCHANGED <<ui, watch>>

BoundedReadFront ==
    /\ ui.presents < MaxPresents
    /\ ReadFront

NextFB ==
    \/ IdleExec \/ TickPpu \/ Account
    \/ WriteBackBuffer \/ CopyPixel \/ SwapLoad \/ SwapStore
    \/ BoundedReadFront \/ ReadPixel \/ Present

SpecFB == InitFB /\ [][NextFB]_vars

\* C10: under every interleaving the emulator never writes a buffer while the
\* presenter is still reading that same buffer.
C10_NoWriteWhileRead ==
    ~(emu.pc = "copy" /\ ui.pc = "read" /\ emu.w_idx = ui.idx)

\* ------------------------------------------------------------------------
\* SpecLoad: ROM files loaded between frames, the CPU running the loaded
\* program
\* ------------------------------------------------------------------------
\* loads issued and frames emulated
MaxLoads == 2
MaxLoadFrames == 1

\* the bytes of seq placed at PRG ROM offset at
RomBytes(seq, at) == [i \in at..(at + Len(seq) - 1) |-> seq[i - at + 1]]

\* INC 0x10; STA 0x4014; JMP 0x8000, reset vector 0x8000 (one 16 KiB bank)
NromProgram ==
    RomBytes(<<230, 16, 141, 20, 64, 76, 0, 128>>, 0) @@ RomBytes(<<0, 128>>, 16380)

\* INX; STA 0x4014; JMP 0xC000 in the last of two banks, reset vector 0xC000
Mmc1Program ==
    RomBytes(<<232, 141, 20, 64, 76, 0, 192>>, 16384) @@ RomBytes(<<0, 192>>, 32764)

\* the files offered: missing, shorter than the signature, wrong signature,
\* two PRG banks declared with one present, mapper 2, mapper 66, MMC1 with no
\* PRG bank, and a complete NROM and a complete MMC1 image
RomImages ==
    { RomImage(FALSE, 0, FALSE, 0, 0, 0, 0, <<>>),
      RomImage(TRUE, 3, FALSE, 0, 0, 0, 0, <<>>),
      RomImage(TRUE, 24592, FALSE, 1, 1, 0, 0, <<>>),
      RomImage(TRUE, 16400, TRUE, 2, 1, 0, 0, NromProgram),
      RomImage(TRUE, 24592, TRUE, 1, 1, 32, 0, NromProgram),
      RomImage(TRUE, 24592, TRUE, 1, 1, 32, 64, NromProgram),
      RomImage(TRUE, 8208, TRUE, 0, 1, 16, 0, <<>>),
      RomImage(TRUE, 24592, TRUE, 1, 1, 1, 0, NromProgram),
      RomImage(TRUE, 40976, TRUE, 2, 1, 16, 0, Mmc1Program) }

InitLoad ==
    /\ bus = BusInit
    /\ emu = EmuInit
    /\ ui = UiInit
    /\ watch = WatchInit

\* Emulator::run, UiEvent::LoadCart received by the poll before a frame
LoadCart ==
    /\ emu.pc = "exec" /\ emu.cycles = 0 /\ ~emu.aborted
    /\ watch.loads < MaxLoads
    /\ \E img \in RomImages :
         \E r \in {load_cartridge(emu, bus, img)} :
            /\ emu' = r.emu
            /\ bus' = r.bus
            /\ watch' = [watch EXCEPT !.img = img, !.loads = @ + 1]
    /\ UNCHANGED ui

LoadExec ==
    /\ emu.frames < MaxLoadFrames
    /\ ExecCpu

NextLoad ==
    \/ LoadCart \/ LoadExec \/ TickPpu \/ Account
    \/ WriteBackBuffer \/ CopyPixel \/ SwapLoad \/ SwapStore

SpecLoad == InitLoad /\ [][NextLoad]_vars

\* the header declares more PRG and CHR bytes than the file holds
BanksExceedImage(img) ==
    16 + (IF BitAnd(img.flag6, 4) # 0 THEN 512 ELSE 0)
       + img.prg_banks * 16384 + img.chr_banks * 8192 > img.len

\* the load the claim calls failed: wrong signature, bank counts exceeding the
\* bytes present, or a mapper id other than 0 and 1
FailingImage(img) ==
    /\ img.exists /\ img.len >= 16
    /\ ~img.magic \/ BanksExceedImage(img) \/ MapperId(img) \notin {0, 1}

C11_LoadStep ==
    (watch'.loads = watch.loads + 1 /\ FailingImage(watch'.img)) =>
        /\ ~emu'.aborted
        /\ emu' = emu /\ bus' = bus

\* C11: a load of an image with a wrong signature, with bank counts exceeding
\* the bytes present, or with an unimplemented mapper id does not abort and
\* leaves CPU, RAM, PPU, mapper and the cartridge-loaded flag unchanged.
C11_FailedLoadLeavesState == [][C11_LoadStep]_vars

\* a step that is a load which succeeded, CPU::reset included
C18_LoadedStep ==
    /\ watch'.loads = watch.loads + 1
    /\ emu'.cartridge_loaded /\ ~emu'.aborted
    /\ from_file(watch'.img).result = "Ok"

C18_ResetStep ==
    C18_LoadedStep =>
        /\ emu'.cpu.a = 0 /\ emu'.cpu.x = 0 /\ emu'.cpu.y = 0
        /\ emu'.cpu.sp = 253 /\ emu'.cpu.status = 36
        /\ emu'.cpu.pc = BusRead(bus', 65532).val + 256 * BusRead(bus', 65533).val
        /\ CpuReset(emu'.cpu, bus').cpu = emu'.cpu

\* C18: CPU::reset, from whatever registers the CPU has, sets A = X = Y = 0,
\* S = 0xFD, P = 0x24 and PC to the little-endian word at 0xFFFC/0xFFFD, and a
\* second reset yields the same registers.
C18_ResetRegisters == [][C18_ResetStep]_vars

\* C18 witness: the MMC1 program ran a frame (X counted up), then the NROM
\* image was loaded and the CPU reset to its vector 0x8000
C18_Witness ==
    /\ watch.loads = 2 /\ emu.frames = 1 /\ watch.pre.x > 0
    /\ bus.cartridge.kind = "Mapper0"
    /\ emu.cartridge_loaded /\ ~emu.aborted
    /\ emu.cpu = CpuRegs(32768)

\* ------------------------------------------------------------------------
\* SpecCpu: the frame loop running LDX #x; LDY #y; and then one instruction
\* of every opcode byte, with what follows it in PRG ROM
\* ------------------------------------------------------------------------
\* calls of CPU::execute_instruction explored
MaxSteps == 4

\* the operand bytes after the opcode, and the index register values
OperandLo == {16, 255}
OperandHi == {2, 128}
IndexVals == {0, 1}

\* LDX #x; LDY #y; op lo hi; NOP; NOP at 0x8000, reset vector 0x8000
CpuProgram(x, y, op, lo, hi) ==
    RomBytes(<<162, x, 160, y, op, lo, hi, 234, 234>>, 0) @@ RomBytes(<<0, 128>>, 16380)

InitCpu ==
    /\ \E op \in 0..255, lo \in OperandLo, hi \in OperandHi, xy \in IndexVals :
         \E r \in {load_cartridge(EmuInit, BusInit,
                                   RomImage(TRUE, 24592, TRUE, 1, 1, 0, 0,
                                            CpuProgram(xy, xy, op, lo, hi)))} :
            emu = r.emu /\ bus = r.bus
    /\ ui = UiInit
    /\ watch = WatchInit

CpuExec ==
    /\ watch.steps < MaxSteps
    /\ ExecCpu

NextCpu == CpuExec \/ TickPpu \/ Account

SpecCpu == InitCpu /\ [][NextCpu]_vars

\* C12: whatever opcode byte is fetched, CPU::execute_instruction returns a
\* cycle count and the core does not abort.
C12_NoOpcodeAborts == ~emu.aborted

C13_HaltStep ==
    (watch'.steps = watch.steps + 1 /\ watch'.halted) =>
        /\ emu'.new_cycles = 0
        /\ emu'.cpu = emu.cpu

\* C13: the step executing opcode 0x32 and every later step return 0 cycles
\* and change no CPU register.
C13_HaltIsTerminal == [][C13_HaltStep]_vars

\* The 6502 reference cycle counts, by instruction class and addressing mode
ReadIns == {"adc", "and", "or", "xor", "bit", "cmp", "ldreg", "sbc", "lax", "multibyte_nop"}
StoreIns == {"sta", "stx", "sty", "sax"}
RmwIns == {"asl", "lsr", "rol", "ror", "inc", "dec", "dcp", "isb", "slo", "rla", "srx", "rra"}
TwoCycleIns == {"nop", "clf", "stf", "trr", "tsx", "txs", "inc_reg", "dec_reg"}

\* opcode 0xDA is a one-byte NOP on the 6502
RefOneByteNops == {218}

RefReadCycles(mode, crossed) ==
    CASE mode = "Immediate" -> 2
      [] mode = "ZeroPage" -> 3
      [] mode \in {"ZeroPageX", "ZeroPageY", "Absolute"} -> 4
      [] mode \in {"AbsoluteX", "AbsoluteY"} -> 4 + (IF crossed THEN 1 ELSE 0)
      [] mode = "IndirectX" -> 6
      [] mode = "IndirectY" -> 5 + (IF crossed THEN 1 ELSE 0)

RefStoreCycles(mode) ==
    CASE mode = "ZeroPage" -> 3
      [] mode \in {"ZeroPageX", "ZeroPageY", "Absolute"} -> 4
      [] mode \in {"AbsoluteX", "AbsoluteY"} -> 5
      [] mode \in {"IndirectX", "IndirectY"} -> 6

RefRmwCycles(mode) ==
    CASE mode = "Accumulator" -> 2
      [] mode = "ZeroPage" -> 5
      [] mode \in {"ZeroPageX", "Absolute"} -> 6
      [] mode \in {"AbsoluteX", "AbsoluteY"} -> 7
      [] mode \in {"IndirectX", "IndirectY"} -> 8

\* the base address the index is added to, for the instruction at pc
RefBase(b, cpu, mode) ==
    LET lo == BusRead(b, (cpu.pc + 1) % 65536).val
        hi == BusRead(b, (cpu.pc + 2) % 65536).val
    IN IF mode = "IndirectY"
       THEN BusRead(b, lo).val + 256 * BusRead(b, (lo + 1) % 256).val
       ELSE lo + 256 * hi

\* the indexed address is in another page than its base
RefCrossed(b, cpu, mode) ==
    LET base == RefBase(b, cpu, mode)
        index == IF mode = "AbsoluteX" THEN cpu.x ELSE cpu.y
    IN /\ mode \in {"AbsoluteX", "AbsoluteY", "IndirectY"}
       /\ ((base + index) % 65536) \div 256 # base \div 256

\* 2, 3 when the branch is taken, 4 when it is taken into another page
RefBranchCycles(b, cpu, e) ==
    LET off == BusRead(b, (cpu.pc + 1) % 65536).val
        next == (cpu.pc + 2) % 65536
        target == (next + (IF off >= 128 THEN off - 256 ELSE off) + 65536) % 65536
    IN IF (BitAnd(cpu.status, e.flag) # 0) # e.want THEN 2
       ELSE IF target \div 256 # next \div 256 THEN 4 ELSE 3

\* the reference count of the instruction at cpu.pc
RefCycles(b, cpu) ==
    LET opcode == BusRead(b, cpu.pc).val
        e == OpcodeTable[opcode]
        i == e.ins
    IN IF opcode \in RefOneByteNops THEN 2
       ELSE CASE i \in ReadIns -> RefReadCycles(e.mode, RefCrossed(b, cpu, e.mode))
              [] i \in StoreIns -> RefStoreCycles(e.mode)
              [] i \in RmwIns -> RefRmwCycles(e.mode)
              [] i \in TwoCycleIns -> 2
              [] i = "brcnd" -> RefBranchCycles(b, cpu, e)
              [] i = "jmp" -> IF e.mode = "Indirect" THEN 5 ELSE 3
              [] i \in {"pha", "php"} -> 3
              [] i \in {"pla", "plp"} -> 4
              [] i \in {"jsr", "rti", "rts"} -> 6
              [] i = "brk" -> 7

\* a step executing an implemented opcode other than the halt opcode
C15_OpcodeStep ==
    /\ watch'.steps = watch.steps + 1 /\ watch'.op = "opcode"
    /\ watch'.opcode \in Implemented \ {50}
    /\ ~emu'.aborted

C15_CycleStep ==
    C15_OpcodeStep =>
        /\ emu'.new_cycles = RefCycles(bus, emu.cpu)
        /\ emu'.new_cycles = Len(watch'.acc)

\* C15: the cycle count CPU::execute_instruction returns equals the 6502
\* reference count of the opcode (page-crossing penalty for indexed reads only,
\* branch penalties) and the number of bus reads and writes the instruction made.
C15_CyclesMatchReference == [][C15_CycleStep]_vars

\* ------------------------------------------------------------------------
\* SpecBank: CPU writes to the MMC1 control, CHR bank and PRG bank registers
\* of small cartridges
\* ------------------------------------------------------------------------
\* number of register commits explored
MaxBankCommits == 1

\* control, CHR bank 0 and PRG bank register; bit 0 clear, set, and a reset
BankAddrs == {32768, 40960, 57344}
BankVals == {0, 1, 128}

\* one PRG bank with CHR RAM, and two PRG banks with one 8 KiB CHR ROM bank
InitBank ==
    /\ \E c \in {Cartridge(1, 0, "Horizontal"), Cartridge(2, 1, "Vertical")} :
         bus = BusLoadCartridge(BusInit, Mapper1(c))
    /\ emu = EmuLoaded
    /\ ui = UiInit
    /\ watch = WatchInit

BankWrite ==
    /\ watch.commits < MaxBankCommits
    /\ \E addr \in BankAddrs, val \in BankVals :
        LET shifted == Append(watch.bits, val % 2)
        IN /\ bus' = BusWrite(bus, addr, val)
           /\ watch' = [watch EXCEPT
                !.op = "mapper_write",
                !.bits = IF val >= 128 \/ Len(shifted) = 5 THEN <<>> ELSE shifted,
                !.commits = IF val < 128 /\ Len(shifted) = 5 THEN @ + 1 ELSE @]
           /\ UNCHANGED <<emu, ui>>

NextBank == BankWrite

SpecBank == InitBank /\ [][NextBank]_vars

\* first and last address of each window the mapper decodes
CartCpuProbe == {24576, 32767, 32768, 49151, 49152, 65535}
CartPpuProbe == {0, 4095, 4096, 8191}

\* C14: after every sequence of mapper register writes, each cpu_read in
\* 0x6000-0xFFFF and each ppu_read / ppu_write in 0x0000-0x1FFF indexes inside
\* its array.
C14_NoOutOfRangeAccess ==
    /\ \A addr \in CartCpuProbe : cpu_read(bus.cartridge, addr) # OutOfBounds
    /\ \A addr \in CartPpuProbe :
         /\ ppu_read(bus.cartridge, addr) # OutOfBounds
         /\ ~ppu_write(bus.cartridge, addr, 0).panic

\* ------------------------------------------------------------------------
\* SpecInput: button bytes arriving from the UI, CPU writes and reads of 0x4016
\* ------------------------------------------------------------------------
\* operations explored
MaxPortOps == 11

\* button bytes: A, Select, Down, Right; B, Start, Up, Left; A only
ButtonBytes == {165, 90, 1}
\* bytes written to the port
PortVals == {0, 1, 2, 3}

InitInput ==
    /\ bus = BusLoadCartridge(BusInit, NromChrRam("Horizontal"))
    /\ emu = EmuLoaded
    /\ ui = UiInit
    /\ watch = WatchInit

\* Emulator::run, UiEvent::ControllerInput(inp)
SetController ==
    /\ watch.ops < MaxPortOps
    /\ \E inp \in ButtonBytes \ {bus.input.controller_state} :
         bus' = [bus EXCEPT !.input.controller_state = inp]
    /\ watch' = [watch EXCEPT !.ops = @ + 1, !.op = "set"]
    /\ UNCHANGED <<emu, ui>>

\* a CPU store to 0x4016
PortWrite ==
    /\ watch.ops < MaxPortOps
    /\ \E val \in PortVals :
         /\ bus' = BusWrite(bus, 16406, val)
         /\ watch' = [watch EXCEPT !.ops = @ + 1, !.op = "port_write", !.last_val = val,
                         !.latched = IF val % 2 = 1 THEN bus.input.controller_state ELSE @,
                         !.reads = IF val % 2 = 1 THEN <<>> ELSE @]
    /\ UNCHANGED <<emu, ui>>

\* a CPU load from 0x4016
PortRead ==
    /\ watch.ops < MaxPortOps
    /\ LET r == BusRead(bus, 16406)
       IN /\ bus' = r.bus
          /\ watch' = [watch EXCEPT !.ops = @ + 1, !.op = "port_read", !.ret = r.val,
                          !.reads = IF watch.latched >= 0 THEN Append(@, r.val) ELSE @]
    /\ UNCHANGED <<emu, ui>>

NextInput == SetController \/ PortWrite \/ PortRead

SpecInput == InitInput /\ [][NextInput]_vars

\* bit i of a byte
ButtonBit(byte, i) == (byte \div (2 ^ i)) % 2

\* C17, step part: a write latches the button byte iff bit 0 is set, a read
\* returns the low bit and shifts right, a button change leaves the register
C17_PortStep ==
    /\ (watch'.ops = watch.ops + 1 /\ watch'.op = "port_write") =>
         bus'.input.controller_shift =
             IF watch'.last_val % 2 = 1 THEN bus.input.controller_state
             ELSE bus.input.controller_shift
    /\ (watch'.ops = watch.ops + 1 /\ watch'.op = "port_read") =>
         /\ watch'.ret = bus.input.controller_shift % 2
         /\ bus'.input.controller_shift = bus.input.controller_shift \div 2
    /\ (watch'.ops = watch.ops + 1 /\ watch'.op = "set") =>
         bus'.input.controller_shift = bus.input.controller_shift

\* C17, order part: the first eight bits read since a latch are bits 0..7 (A,
\* B, Select, Start, Up, Down, Left, Right) of the byte latched
C17_ReadOrder ==
    \A i \in 1..Len(watch.reads) :
        i <= 8 => watch.reads[i] = ButtonBit(watch.latched, i - 1)

\* C17: controller port protocol at 0x4016: a write with bit 0 set latches the
\* button byte, a write with bit 0 clear does not; reads return the low bit and
\* shift right, so the eight reads after a latch give A, B, Select, Start, Up,
\* Down, Left, Right of the byte latched, whatever the buttons do meanwhile.
C17_ControllerProtocol == []C17_ReadOrder /\ [][C17_PortStep]_vars

\* C17 witness: 0xA5 was latched, the buttons changed afterwards, and eight
\* reads returned 1,0,1,0,0,1,0,1
C17_Witness ==
    /\ watch.latched = 165 /\ bus.input.controller_state # 165
    /\ watch.reads = <<1, 0, 1, 0, 0, 1, 0, 1>>
    /\ bus.input.controller_shift = 0

\* C19: the pixels published do not depend on thread scheduling: every buffer
\* the presenter shows holds the pixels of one emulated frame (the n-th frame's
\* pixels are all n), whatever the interleaving of the two threads.
C19_PresentedFrameIsOneFrame ==
    ui.pc = "present" => \A i, j \in 1..Len(ui.seen) : ui.seen[i] = ui.seen[j]

\* C20: v and t stay below 0x8000 (bit 15 never set) under every sequence of
\* register accesses, and after the first write of a PPUADDR pair bit 14 of t
\* is clear.
C20_AddressRegistersAre15Bit ==
    /\ bus.ppu.vram_addr < 32768
    /\ bus.ppu.tmp_vram_addr < 32768
    /\ (watch.op = "write" /\ watch.last_addr = 8198 /\ ~watch.pre_latch) =>
           BitAnd(bus.ppu.tmp_vram_addr, 16384) = 0

\* ------------------------------------------------------------------------
\* SpecFrame: the frame loop of Emulator::run on a loaded program, up to the
\* publication of the frame
\* ------------------------------------------------------------------------
\* frames emulated
MaxFrameRuns == 1

\* opcode 0x32, then INC 0x10; STA 0x4014; JMP 0x8001, reset vector 0x8000
HaltProgram ==
    RomBytes(<<50, 230, 16, 141, 20, 64, 76, 1, 128>>, 0) @@ RomBytes(<<0, 128>>, 16380)

\* STA 0x4014; opcode 0x32; JMP 0x8000: opcode 0x32 in every round of the loop
HaltLoopProgram ==
    RomBytes(<<141, 20, 64, 50, 76, 0, 128>>, 0) @@ RomBytes(<<0, 128>>, 16380)

\* INC 0x10; STA 0x4014; then the byte 0x02, which has no arm in the match
NoArmProgram ==
    RomBytes(<<230, 16, 141, 20, 64, 2>>, 0) @@ RomBytes(<<0, 128>>, 16380)

FramePrograms == {NromProgram, HaltProgram, HaltLoopProgram, NoArmProgram}

InitFrame ==
    /\ \E prg \in FramePrograms :
         \E r \in {load_cartridge(EmuInit, BusInit,
                                   RomImage(TRUE, 24592, TRUE, 1, 1, 0, 0, prg))} :
            emu = r.emu /\ bus = r.bus
    /\ ui = UiInit
    /\ watch = WatchInit

FrameExec ==
    /\ emu.frames < MaxFrameRuns
    /\ ExecCpu

NextFrame ==
    \/ FrameExec \/ TickPpu \/ Account
    \/ WriteBackBuffer \/ CopyPixel \/ SwapLoad \/ SwapStore

SpecFrame == InitFrame /\ [][NextFrame]_vars

\* the steps of the frame loop after the instruction and its PPU dots
FrameRest ==
    \/ Account \/ WriteBackBuffer \/ CopyPixel \/ SwapLoad \/ SwapStore

\* execute_instruction, then tick_ppu
FrameStep == FrameExec \/ TickPpu

\* the guard of FrameStep: execute_instruction or tick_ppu is the next
\* statement of the emulator thread, which has not panicked
StepEnabled ==
    \/ emu.frames < MaxFrameRuns /\ emu.pc = "exec" /\ emu.cartridge_loaded
                                 /\ ~emu.aborted
    \/ emu.pc = "tick"

\* weak fairness of FrameStep, with its enabling condition written as the
\* guard: the thread does not stop before one of the two calls
StepFair == []<>(~StepEnabled) \/ []<><<FrameStep>>_vars

\* the emulator thread keeps running while it has a step to take
SpecFrameLive == SpecFrame /\ WF_vars(FrameRest) /\ StepFair

\* C21: every frame iteration that starts (cartridge loaded, cycles = 0)
\* leaves the loop accumulating 29781 cycles and publishes its frame,
\* whatever the program, opcode 0x32 and steps of 0 cycles included.
C21_FrameTerminates ==
    \A k \in 0..(MaxFrameRuns - 1) :
        (emu.cartridge_loaded /\ emu.pc = "exec" /\ emu.cycles = 0 /\ emu.frames = k)
            ~> (emu.frames = k + 1 /\ emu.pc = "exec")

\* ------------------------------------------------------------------------
\* SpecRender: the dot state machine after the program has set up the
\* registers (PPUADDR, PPUSCROLL, PPUMASK), with no register access afterwards
\* ------------------------------------------------------------------------
\* dot steps explored: two frames and the pre-render scanline of a third
MaxRenderDots == 178600

\* PPU::write_register applied to a sequence of <<address, value>> writes
RECURSIVE WriteRegisters(_, _)
WriteRegisters(p, writes) ==
    IF writes = <<>> THEN p
    ELSE WriteRegisters(WriteRegister(p, MapperNone, writes[1][1], writes[1][2]).ppu,
                        Tail(writes))

\* register set-ups: PPUMASK alone (t = v = 0), and PPUADDR 0x2145 followed
\* by PPUSCROLL 0x7D, 0x5E (t = 0x616F, v = 0x2145) and PPUMASK
RenderSetups ==
    {<<<<8193, mask>>>> : mask \in {0, 24}}
        \cup {<<<<8198, 33>>, <<8198, 69>>, <<8197, 125>>, <<8197, 94>>, <<8193, mask>>>> :
                mask \in {8, 16, 24}}

InitRender ==
    /\ \E writes \in RenderSetups :
          bus = [BusInit EXCEPT !.ppu = WriteRegisters(PPUNew, writes)]
    /\ emu = EmuInit
    /\ ui = UiInit
    /\ watch = WatchInit

\* Bus::tick_ppu, one dot; the observer measures scanlines as PPUStep does
RenderStep ==
    /\ watch.dots < MaxRenderDots
    /\ \E b \in {TickDot(bus)} :
       LET ends == b.ppu.current_phase # bus.ppu.current_phase
                       \/ b.ppu.scanline # bus.ppu.scanline
       IN /\ bus' = b
          /\ watch' = [watch EXCEPT
               !.dots = @ + 1,
               !.line_dots = IF ends THEN 0 ELSE @ + 1,
               !.last_line = IF ends THEN watch.line_dots + 1 ELSE @,
               !.last_phase = IF ends THEN bus.ppu.current_phase ELSE @]
    /\ UNCHANGED <<emu, ui>>

NextRender == RenderStep

SpecRender == InitRender /\ [][NextRender]_vars

\* the PPU is at the first dot of scanline 0 of a frame that follows a
\* complete frame
FirstDotOfNextFrame ==
    /\ bus.ppu.current_phase = "Render" /\ bus.ppu.scanline = 0
    /\ bus.ppu.scanline_cycle = 1
    /\ watch.dots > 341

\* C22: with background and/or sprites enabled and no register write during
\* a frame, v at the first dot of the next frame's scanline 0 is the value of
\* t (horizontal bits 0x041F and vertical bits 0x7BE0).
C22_VReloadedFromT ==
    (FirstDotOfNextFrame /\ BitAnd(bus.ppu.mask, ShowBackground + ShowSprites) # 0)
        => BitAnd(bus.ppu.vram_addr, 32767) = BitAnd(bus.ppu.tmp_vram_addr, 32767)

\* C26: the pre-render scanline of an odd frame with background and sprites
\* both enabled lasts 340 dot steps, that of every other frame 341.
C26_PreRenderLength ==
    (watch.last_phase = "PreRender" /\ watch.last_line # 0) =>
        watch.last_line =
            IF ~bus.ppu.even_frame /\ BitAnd(bus.ppu.mask, 24) = 24 THEN 340 ELSE 341

\* C27: once dot 1 of the pre-render scanline has been stepped, the VBlank,
\* sprite-0-hit and sprite-overflow bits of the status are all clear.
C27_PreRenderClearsStatus ==
    (bus.ppu.current_phase = "PreRender" /\ bus.ppu.scanline_cycle = 2)
        => BitAnd(bus.ppu.status, VBlankFlag + SpriteZeroHit + SpriteOverflow) = 0

\* ------------------------------------------------------------------------
\* SpecIncY: the step of dot 257 of a visible scanline, background enabled,
\* for the values of v
\* ------------------------------------------------------------------------
\* values of v: fine Y, nametable select, coarse Y, coarse X
IncYInputs ==
    {fy * 4096 + nt * 1024 + cy * 32 + cx :
        fy \in 0..7, nt \in 0..3, cy \in 0..31, cx \in {0, 21, 31}}

InitIncY ==
    /\ \E v \in IncYInputs : \E mask \in {ShowBackground, ShowBackground + ShowSprites} :
          bus = [BusInit EXCEPT !.ppu =
                    [PPUNew EXCEPT !.mask = mask, !.current_phase = "Render",
                                   !.scanline = 5, !.scanline_cycle = SCANLINE_DOTS + 1,
                                   !.tmp_vram_addr = v, !.vram_addr = v]]
    /\ emu = EmuInit
    /\ ui = UiInit
    /\ watch = WatchInit

\* Bus::tick_ppu at dot 257: PPU::step increments the vertical position of v
IncYStep ==
    /\ bus.ppu.scanline_cycle = SCANLINE_DOTS + 1
    /\ bus' = TickDot(bus)
    /\ watch' = [watch EXCEPT !.op = "incy", !.last_val = bus.ppu.vram_addr]
    /\ UNCHANGED <<emu, ui>>

NextIncY == IncYStep

SpecIncY == InitIncY /\ [][NextIncY]_vars

\* v after the vertical increment as the claim words it; y30 is the coarse Y
\* that follows coarse Y 30
VerticalIncrement(v, y30) ==
    LET fy == (v \div 4096) % 8
        cy == (v \div 32) % 32
        rest == v - fy * 4096 - cy * 32
    IN IF fy < 7 THEN v + 4096
       ELSE CASE cy <= 28 -> rest + (cy + 1) * 32
              [] cy = 29 -> IF (rest \div 2048) % 2 = 1 THEN rest - 2048 ELSE rest + 2048
              [] cy = 30 -> rest + y30 * 32
              [] cy = 31 -> rest

\* C28 as stated: at the end-of-line increment fine Y below 7 is incremented;
\* at fine Y 7 it resets to 0 and coarse Y 0..28 goes to the next value, 29 to
\* 0 with bit 0x0800 toggled, 30 and 31 to 0 without toggle; no other bit of
\* v changes.
C28_VerticalIncrement ==
    watch.op = "incy" => bus.ppu.vram_addr = VerticalIncrement(watch.last_val, 0)

\* C28 amended: as stated, except that coarse Y 30 goes to 31; only 31 goes
\* to 0 without toggle.
C28_VerticalIncrementAmended ==
    watch.op = "incy" => bus.ppu.vram_addr = VerticalIncrement(watch.last_val, 31)

\* the increment has acted on a v with fine Y 7 and coarse Y 30
C28_Witness ==
    /\ watch.op = "incy"
    /\ (watch.last_val \div 4096) % 8 = 7 /\ (watch.last_val \div 32) % 32 = 30
    /\ (bus.ppu.vram_addr \div 32) % 32 = 31

\* ------------------------------------------------------------------------
\* SpecData: CPU accesses to PPUADDR and PPUDATA
\* ------------------------------------------------------------------------
\* number of register accesses explored
MaxDataOps == 6

\* bytes written to PPUADDR: pattern table, palette, and their mirrors above
\* 0x3FFF (0x40.., 0x7F..)
DataAddrBytes == {0, 63, 64, 127}

\* CPU writes explored: PPUADDR bytes, and one value to PPUDATA
DataWrites == {<<8198, val>> : val \in DataAddrBytes} \cup {<<8199, 9>>}

\* an NROM cartridge with one PRG bank and one CHR ROM bank
InitData ==
    /\ bus = BusLoadCartridge(BusInit, Mapper0(Cartridge(1, 1, "Horizontal")))
    /\ emu = EmuLoaded
    /\ ui = UiInit
    /\ watch = WatchInit

\* Bus::write of 0x2006 or 0x2007
DataWrite ==
    /\ watch.ops < MaxDataOps
    /\ \E wr \in DataWrites :
        /\ bus' = BusWrite(bus, wr[1], wr[2])
        /\ watch' = [watch EXCEPT !.ops = @ + 1, !.op = "write", !.last_addr = wr[1],
                                  !.last_val = wr[2]]
    /\ UNCHANGED <<emu, ui>>

\* Bus::read of 0x2007
DataRead ==
    /\ watch.ops < MaxDataOps
    /\ \E r \in {BusRead(bus, 8199)} :
        /\ bus' = r.bus
        /\ watch' = [watch EXCEPT !.ops = @ + 1, !.op = "read", !.last_addr = 8199,
                                  !.ret = r.val]
    /\ UNCHANGED <<emu, ui>>

NextData == DataWrite \/ DataRead

SpecData == InitData /\ [][NextData]_vars

\* C30: a PPUDATA read at an address outside the palette returns the read
\* buffer and refills the buffer with the byte at that address; at a palette
\* address (0x3F00..0x3FFF after 14-bit mirroring) it returns the palette
\* byte directly; an address that mirrors into 0x0000..0x3EFF is not a
\* palette address.
C30_BufferedDataRead ==
    [][ (watch'.ops # watch.ops /\ watch'.op = "read") =>
        LET addr == bus.ppu.ppu_addr
            byte == PPURead(bus.ppu, bus.cartridge, addr)
        IN IF addr % 16384 >= 16128
           THEN watch'.ret = byte
           ELSE /\ watch'.ret = bus.ppu.data_buffer
                /\ bus'.ppu.data_buffer = byte ]_vars

\* the PPUDATA increment PPUCTRL bit 2 selects
DataIncrement(p) == IF BitAnd(p.control, 4) # 0 THEN 32 ELSE 1

\* C31, step part: a PPUDATA access reads or writes PPU memory at v and then
\* adds the increment to v
C31_DataStep ==
    (watch'.ops # watch.ops /\ watch'.last_addr = 8199) =>
        LET p == bus.ppu
            v == p.vram_addr
        IN /\ bus'.ppu.vram_addr \in {(v + DataIncrement(p)) % 32768,
                                      (v + DataIncrement(p)) % 65536}
           /\ watch'.op = "read" =>
                bus'.ppu.data_buffer = PPURead(p, bus.cartridge, v)
           /\ watch'.op = "write" =>
                /\ bus'.ppu.vram = PPUWrite(p, bus.cartridge, v, watch'.last_val).ppu.vram
                /\ bus'.ppu.palette_ram
                     = PPUWrite(p, bus.cartridge, v, watch'.last_val).ppu.palette_ram

\* C31: every PPUDATA read and write accesses PPU memory at the current VRAM
\* address v and then increments v by 1 (PPUCTRL bit 2 clear) or 32 (set): the
\* address PPUDATA uses and the address rendering uses are one register.
C31_DataUsesV == [][C31_DataStep]_vars

\* ------------------------------------------------------------------------
\* SpecInt: the frame loop running a program that enables the NMI, up to
\* the VBlank of the first frame and the interrupt handlers that follow
\* ------------------------------------------------------------------------
\* CPU cycles of the first frame explored: the NMI of scanline 241 is
\* serviced after 27434 cycles
MaxIntCycles == 27560

\* assertions of the IRQ line explored
MaxIrqs == 2

\* 0x8000: LDA #0x80; STA 0x2000; CLI; 16 x INC 0x0300,X; JMP 0x8006
\* 0x8040 (NMI): LDA #0xFF; PHA; PLP; PHP; PLA; BRK; LDA #0; PHA; PLP; PHP;
\*               PLA; BRK; RTI
\* 0x8060 (IRQ/BRK): NOP; RTI
IntProgram ==
    RomBytes(<<169, 128, 141, 0, 32, 88>>, 0)
        @@ [i \in 6..53 |-> <<254, 0, 3>>[(i % 3) + 1]]
        @@ RomBytes(<<76, 6, 128>>, 54)
        @@ RomBytes(<<169, 255, 72, 40, 8, 104, 0, 234,
                      169, 0, 72, 40, 8, 104, 0, 234, 64>>, 64)
        @@ RomBytes(<<234, 64>>, 96)
        @@ RomBytes(<<64, 128, 0, 128, 96, 128>>, 16378)

InitInt ==
    /\ \E r \in {load_cartridge(EmuInit, BusInit,
                                RomImage(TRUE, 24592, TRUE, 1, 1, 0, 0, IntProgram))} :
          emu = r.emu /\ bus = r.bus
    /\ ui = UiInit
    /\ watch = WatchInit

\* Emulator::run, execute_instruction within the cycles explored
IntExec ==
    /\ emu.cycles < MaxIntCycles
    /\ ExecCpu

\* a device asserts the IRQ line (Bus::irq, a public field that no code of
\* the repository sets) between two instructions, from the VBlank of
\* scanline 241 on
RaiseIrq ==
    /\ emu.pc = "exec" /\ ~emu.aborted
    /\ emu.cycles < MaxIntCycles
    /\ ~bus.irq
    /\ watch.irqs < MaxIrqs
    /\ bus.nmi_request \/ get_status_flag(bus.ppu, VBlankFlag)
    /\ bus' = [bus EXCEPT !.irq = TRUE]
    /\ watch' = [watch EXCEPT !.irqs = @ + 1]
    /\ UNCHANGED <<emu, ui>>

NextInt == IntExec \/ TickPpu \/ Account \/ RaiseIrq

SpecInt == InitInt /\ [][NextInt]_vars

\* the step is a call of execute_instruction
IntStep == watch'.steps # watch.steps

\* the bus writes among the accesses of a step
BusWritesOf(acc) ==
    LET IsWrite(a) == a[1] = "w"
    IN SelectSeq(acc, IsWrite)

\* the status byte P with U set and B as given
PushedStatus(P, b) ==
    P - ((P \div 16) % 2) * 16 - ((P \div 32) % 2) * 32 + 32 + b * 16

\* the step is the interrupt sequence with the given vector: the dummy read
\* of the stack, PC high, PC low and P (B = 0, U = 1) pushed, I set, PC
\* loaded from the vector, 7 cycles, and no opcode fetch
InterruptSequence(vector) ==
    LET cpu == emu.cpu
        acc == watch'.acc
    IN /\ Len(acc) = 6
       /\ acc[1][1] = "r" /\ acc[1][2] = 256 + cpu.sp
       /\ acc[2] = <<"w", 256 + cpu.sp, cpu.pc \div 256>>
       /\ acc[3] = <<"w", 256 + ((cpu.sp + 255) % 256), cpu.pc % 256>>
       /\ acc[4] = <<"w", 256 + ((cpu.sp + 254) % 256), PushedStatus(cpu.status, 0)>>
       /\ acc[5][1] = "r" /\ acc[5][2] = vector
       /\ acc[6][1] = "r" /\ acc[6][2] = vector + 1
       /\ emu'.cpu.pc = acc[5][3] + 256 * acc[6][3]
       /\ (emu'.cpu.status \div 4) % 2 = 1
       /\ emu'.cpu.sp = (cpu.sp + 253) % 256
       /\ emu'.new_cycles = 7

\* C23: an NMI request pending at an instruction boundary is serviced by the
\* next step, before any IRQ and before any opcode fetch: the request is
\* cleared, PC high, PC low and P with B = 0 and U = 1 are pushed, I is set,
\* PC is loaded from 0xFFFA and 7 cycles are returned. A request stays
\* pending until that step, and a step without a pending request does not
\* read the NMI vector: each request is serviced exactly once.
C23_NmiServicedFirst ==
    [][ /\ (IntStep /\ bus.nmi_request) =>
              /\ ~bus'.nmi_request
              /\ bus'.irq = bus.irq
              /\ InterruptSequence(65530)
        /\ (IntStep /\ ~bus.nmi_request) =>
              \A i \in 1..Len(watch'.acc) : watch'.acc[i][2] # 65530
        /\ (~IntStep /\ bus.nmi_request) => bus'.nmi_request ]_vars

\* C23 witness: the NMI raised by the PPU was serviced while the IRQ line
\* was asserted too; the IRQ is still pending and PC is the NMI handler
C23_Witness ==
    /\ watch.op = "nmi" /\ emu.pc = "tick" /\ emu.new_cycles = 7
    /\ emu.cpu.pc = 32832
    /\ bus.irq /\ ~bus.nmi_request
    /\ get_status_flag(bus.ppu, VBlankFlag)

\* C24: with the IRQ line asserted and no NMI pending, a step with I set does
\* not service the interrupt: it fetches and dispatches the next opcode and
\* returns its non-zero cycle count; with I clear it performs the interrupt
\* sequence with vector 0xFFFE and returns 7.
C24_IrqMaskedByI ==
    [][ (IntStep /\ ~bus.nmi_request /\ bus.irq) =>
            IF (emu.cpu.status \div 4) % 2 = 1
            THEN /\ Len(watch'.acc) >= 1
                 /\ watch'.acc[1][1] = "r" /\ watch'.acc[1][2] = emu.cpu.pc
                 /\ emu'.new_cycles # 0
            ELSE InterruptSequence(65534) ]_vars

\* C25: every status byte pushed has U set; its B bit is 1 when BRK or PHP
\* pushes it and 0 when an NMI or an IRQ does; the other bits are those of P.
C25_PushedStatusBits ==
    [][ IntStep =>
            LET ws == BusWritesOf(watch'.acc)
                P == emu.cpu.status
            IN /\ (watch'.op \in {"nmi", "irq"} /\ Len(ws) > 0) =>
                     Len(ws) = 3 /\ ws[3][3] = PushedStatus(P, 0)
               /\ (watch'.op = "opcode" /\ watch'.opcode = 0) =>
                     Len(ws) = 3 /\ ws[3][3] = PushedStatus(P, 1)
               /\ (watch'.op = "opcode" /\ watch'.opcode = 8) =>
                     Len(ws) = 1 /\ ws[1][3] = PushedStatus(P, 1) ]_vars

\* C25 witness: PHP has pushed 0xFF from P = 0xEF
C25_Witness ==
    /\ watch.op = "opcode" /\ watch.opcode = 8 /\ emu.pc = "tick"
    /\ watch.pre.status = 239
    /\ BusWritesOf(watch.acc) = <<<<"w", 256 + watch.pre.sp, 255>>>>

\* the live status byte has U set and B clear
StatusHasUNotB(cpu) ==
    /\ BitAnd(cpu.status, FLAG_U) = FLAG_U
    /\ BitAnd(cpu.status, FLAG_B) = 0

\* the byte PLP (0x28) and RTI (0x40) pop: the fourth access of the step, after
\* the opcode fetch and the two dummy reads
PoppedStatus(acc) == acc[4][3]

\* C38, step part: PLP and RTI load every bit but B and U from the popped byte
C38_PullStep ==
    (IntStep /\ watch'.op = "opcode" /\ watch'.opcode \in {40, 64}) =>
        /\ watch'.acc[4] = <<"r", 256 + ((emu.cpu.sp + 1) % 256), PoppedStatus(watch'.acc)>>
        /\ BitAnd(emu'.cpu.status, 207) = BitAnd(PoppedStatus(watch'.acc), 207)
        /\ StatusHasUNotB(emu'.cpu)

\* C38: from reset on, after any sequence of instructions and interrupts, the
\* live status register has U = 1 and B = 0; PLP and RTI restore every other
\* bit from the popped byte and never load B or clear U.
C38_StatusBitsUB == [](StatusHasUNotB(emu.cpu)) /\ [][C38_PullStep]_vars

\* C38 witness: RTI has popped a status byte that BRK pushed with B set
C38_Witness ==
    /\ watch.op = "opcode" /\ watch.opcode = 64 /\ emu.pc = "tick"
    /\ BitAnd(PoppedStatus(watch.acc), FLAG_B) = FLAG_B
    /\ BitAnd(emu.cpu.status, 207) = BitAnd(PoppedStatus(watch.acc), 207)
    /\ StatusHasUNotB(emu.cpu)

\* ------------------------------------------------------------------------
\* SpecTiming: dot steps, cartridge loads at any dot, and PPUMASK writes
\* ------------------------------------------------------------------------
\* cartridge loads explored
MaxTimingLoads == 1

InitTiming ==
    /\ bus = BusLoadCartridge(BusInit, Mapper0(Cartridge(1, 1, "Horizontal")))
    /\ emu = EmuLoaded
    /\ ui = UiInit
    /\ watch = WatchInit

\* Bus::tick_ppu, one dot
TimingDot ==
    /\ bus' = TickDot(bus)
    /\ watch' = [watch EXCEPT !.op = "dot"]
    /\ UNCHANGED <<emu, ui>>

\* the dots of a scanline at which a load is explored
LoadDots == {0, 1, 340}

\* Bus::load_cartridge between two dots: Bus::reset with PPU::reset
TimingLoad ==
    /\ watch.loads < MaxTimingLoads
    /\ bus.ppu.scanline_cycle \in LoadDots
    /\ bus' = BusLoadCartridge(bus, Mapper0(Cartridge(1, 1, "Horizontal")))
    /\ watch' = [watch EXCEPT !.op = "reset", !.loads = @ + 1]
    /\ UNCHANGED <<emu, ui>>

\* Bus::write of 0x2001 during the pre-render line: rendering is enabled
TimingMask ==
    /\ bus.ppu.current_phase = "PreRender" /\ bus.ppu.mask = 0
    /\ bus' = BusWrite(bus, 8193, 24)
    /\ watch' = [watch EXCEPT !.op = "write", !.last_addr = 8193, !.last_val = 24]
    /\ UNCHANGED <<emu, ui>>

NextTiming == TimingDot \/ TimingLoad \/ TimingMask

SpecTiming == InitTiming /\ [][NextTiming]_vars

\* the phase agrees with the scanline counter, and the dot counter is in range
PhaseAgreesWithScanline(p) ==
    /\ p.current_phase = "Render" => p.scanline \in 0..239
    /\ p.current_phase = "PostRender" => p.scanline = 240
    /\ p.current_phase = "VBlank" => p.scanline \in 241..260
    /\ p.scanline_cycle <= 341

\* phase, scanline, dot and frame parity as PPU::new leaves them
TimingAsPowerOn(p) ==
    /\ p.current_phase = PPUNew.current_phase
    /\ p.scanline = PPUNew.scanline
    /\ p.scanline_cycle = PPUNew.scanline_cycle
    /\ p.even_frame = PPUNew.even_frame

\* C39: at every dot-step boundary, after any interleaving of dot steps,
\* register accesses and resets (a cartridge load in the middle of a frame
\* included), Render implies scanline 0..239, PostRender scanline 240, VBlank
\* scanline 241..260, and the dot counter is at most 341; a reset returns phase,
\* scanline, dot and frame parity to their power-on values.
C39_PhaseMatchesScanline ==
    /\ PhaseAgreesWithScanline(bus.ppu)
    /\ watch.op = "reset" => TimingAsPowerOn(bus.ppu)

\* ------------------------------------------------------------------------
\* SpecRmw: the frame loop running one indexed store or read-modify-write
\* instruction on RAM and on PPUDATA, with and without a page crossing
\* ------------------------------------------------------------------------
\* calls of CPU::execute_instruction explored
MaxRmwSteps == 5

\* STA abs,X / abs,Y / (zp),Y and ASL, LSR, ROL, ROR, INC, DEC abs,X
RmwOpcodes == {157, 153, 145, 30, 94, 62, 126, 254, 222}
\* operand bytes: 0x0207/0x2007 (PPUDATA), 0x0210/0x2010, 0x02FF/0x20FF
RmwLo == {7, 16, 255}
RmwHi == {2, 32}

\* LDA #0xFF; STA 0x10; LDX #x; LDY #y; op lo hi; NOP at 0x8000: the
\* zero-page word at 0x10 is 0x00FF
RmwProgram(x, y, op, lo, hi) ==
    RomBytes(<<169, 255, 133, 16, 162, x, 160, y, op, lo, hi, 234, 234>>, 0)
        @@ RomBytes(<<0, 128>>, 16380)

InitRmw ==
    /\ \E op \in RmwOpcodes, lo \in RmwLo, hi \in RmwHi, xy \in IndexVals :
         \E r \in {load_cartridge(EmuInit, BusInit,
                                   RomImage(TRUE, 24592, TRUE, 1, 1, 0, 0,
                                            RmwProgram(xy, xy, op, lo, hi)))} :
            emu = r.emu /\ bus = r.bus
    /\ ui = UiInit
    /\ watch = WatchInit

RmwExec ==
    /\ watch.steps < MaxRmwSteps
    /\ ExecCpu

NextRmw == RmwExec \/ TickPpu \/ Account

SpecRmw == InitRmw /\ [][NextRmw]_vars

\* the byte an instruction writes for the byte it read
Modified(ins, value, carry) ==
    CASE ins = "inc" -> (value + 1) % 256
      [] ins = "dec" -> (value + 255) % 256
      [] OTHER -> Shifted(ins, value, carry).val

\* the accesses after the operand fetch: one read at the uncorrected address,
\* then the store, or the read of the effective address, the write of the
\* byte read and the write of the modified byte
IndexedAccesses(b, cpu, opcode, acc) ==
    LET e == OpcodeTable[opcode]
        base == RefBase(b, cpu, e.mode)
        index == IF e.mode = "AbsoluteX" THEN cpu.x ELSE cpu.y
        eff == (base + index) % 65536
        unc == (base \div 256) * 256 + (eff % 256)
        n == IF e.mode = "IndirectY" THEN 4 ELSE 3
        tail == SubSeq(acc, n + 1, Len(acc))
    IN IF e.ins = "sta"
       THEN /\ Len(tail) = 2
            /\ tail[1][1] = "r" /\ tail[1][2] = unc
            /\ tail[2] = <<"w", eff, cpu.a>>
       ELSE /\ Len(tail) = 4
            /\ tail[1][1] = "r" /\ tail[1][2] = unc
            /\ tail[2][1] = "r" /\ tail[2][2] = eff
            /\ tail[3] = <<"w", eff, tail[2][3]>>
            /\ tail[4] = <<"w", eff, Modified(e.ins, tail[2][3], get_flag(cpu, FLAG_C))>>

\* a step executing one of the instructions of RmwOpcodes
C37_IndexedStep ==
    /\ watch'.steps = watch.steps + 1 /\ watch'.op = "opcode"
    /\ watch'.opcode \in RmwOpcodes
    /\ ~emu'.aborted

\* C37: STA abs,X / abs,Y / (zp),Y and ASL, LSR, ROL, ROR, INC, DEC abs,X make
\* exactly one extra read, at the uncorrected address (high byte of the base,
\* low byte of the indexed address), before the access to the effective
\* address, whether or not a page is crossed; each read-modify-write writes
\* the byte it read back before it writes the modified byte.
C37_DummyReadBeforeAccess ==
    [][C37_IndexedStep => IndexedAccesses(bus, emu.cpu, watch'.opcode, watch'.acc)]_vars

\* the dot step that ends the post-render scanline
EndsPostRender ==
    /\ watch'.op = "dot"
    /\ bus.ppu.current_phase = "PostRender"
    /\ bus.ppu.scanline_cycle >= SCANLINE_END_CYCLE

\* C34, step part: the front buffer changes in no step but the one ending the
\* post-render scanline, which leaves it equal to the back buffer
C34_FrontStep ==
    /\ bus'.ppu.frame_buffer # bus.ppu.frame_buffer => EndsPostRender
    /\ EndsPostRender => bus'.ppu.frame_buffer = bus.ppu.back_buffer

\* C34: the front framebuffer changes only at the end of the post-render
\* scanline, where it becomes a copy of the back buffer; no other dot step, no
\* register access and no other operation modifies it, so it always holds one
\* complete frame.
C34_FrontBufferOnlyAtPostRender == [][C34_FrontStep]_vars

\* ------------------------------------------------------------------------
\* SpecSprite: sprite evaluation and the sprite-zero hit on the first visible
\* scanlines, after the program has filled OAM and set OAMADDR, PPUCTRL and
\* PPUMASK
\* ------------------------------------------------------------------------
\* the last visible scanline stepped
LastSpriteLine == 16

\* OAM contents: "zero" is OAM as PPU::new leaves it (64 sprites at Y = 0,
\* X = 0); "edge" has sprite 0 at the right screen edge and the others below
\* the screen; "thirds" has every third sprite at Y = 2; "eight" has exactly
\* eight sprites at Y = 1; "bottom" has sprite 0 on the last visible scanline
\* and the others below the screen
SpriteLayouts == {"zero", "edge", "thirds", "eight"}

\* the sprite <<Y, tile, attribute, X>> of OAM index i
LayoutSprite(layout, i) ==
    CASE layout = "zero" -> <<0, 0, 0, 0>>
      [] layout = "edge" -> IF i = 0 THEN <<0, 0, 0, 249>> ELSE <<240, 0, 0, 0>>
      [] layout = "thirds" -> <<IF i % 3 = 0 THEN 2 ELSE 250, 0, 0, (8 * i) % 256>>
      [] layout = "bottom" -> IF i = 0 THEN <<239, 0, 0, 8>> ELSE <<240, 0, 0, 0>>
      [] layout = "eight" -> <<IF i % 8 = 1 THEN 1 ELSE 240, 0, 0, (16 * i) % 256>>

\* the register writes of a set-up: OAMADDR 0 and 256 OAMDATA bytes (none
\* for "zero"), then OAMADDR, PPUCTRL and PPUMASK
SpriteSetup(layout, oam_addr, control, mask) ==
    (IF layout = "zero" THEN <<>>
     ELSE <<<<8195, 0>>>>
              \o [a \in 1..256 |-> <<8196, LayoutSprite(layout, (a - 1) \div 4)[((a - 1) % 4) + 1]>>])
        \o <<<<8195, oam_addr>>, <<8192, control>>, <<8193, mask>>>>

\* PPU::write_register applied to writes i+1..n of a sequence, in order (the
\* range is halved to keep the evaluation shallow)
RECURSIVE WriteRegistersFrom(_, _, _, _)
WriteRegistersFrom(p, writes, i, n) ==
    IF n - i <= 0 THEN p
    ELSE IF n - i = 1
    THEN WriteRegister(p, MapperNone, writes[i + 1][1], writes[i + 1][2]).ppu
    ELSE LET mid == i + (n - i) \div 2
             first == WriteRegistersFrom(p, writes, i, mid)
         IN IF first.oam_addr >= 0 THEN WriteRegistersFrom(first, writes, mid, n) ELSE first

InitSprite ==
    /\ \E layout \in SpriteLayouts, oam_addr \in {0, 9, 252}, control \in {0, 32},
          mask \in {30, 24, 28, 20} :
          bus = [BusLoadCartridge(BusInit, Mapper0(Cartridge(1, 1, "Horizontal")))
                   EXCEPT !.ppu =
                       LET Written(writes) == WriteRegistersFrom(@, writes, 0, Len(writes))
                       IN Written(SpriteSetup(layout, oam_addr, control, mask))]
    /\ emu = EmuLoaded
    /\ ui = UiInit
    /\ watch = WatchInit

\* Bus::tick_ppu, one dot
SpriteTick ==
    /\ ~(bus.ppu.current_phase = "Render" /\ bus.ppu.scanline > LastSpriteLine)
    /\ bus' = TickDot(bus)
    /\ watch' = [watch EXCEPT !.op = "dot"]
    /\ UNCHANGED <<emu, ui>>

NextSprite == SpriteTick

SpecSprite == InitSprite /\ [][NextSprite]_vars

\* the elements of a sequence
Elements(seq) == {seq[k] : k \in 1..Len(seq)}

\* sprite i is on scanline `scanline`: 0 <= scanline - Y < sprite height
OnScanline(p, i) ==
    /\ 0 <= p.scanline - Get(p.oam_ram, i * 4)
    /\ p.scanline - Get(p.oam_ram, i * 4) < (IF BitAnd(p.control, 32) # 0 THEN 16 ELSE 8)

\* the dot step about to be made is the last of a visible scanline
EndsVisibleLine(p) ==
    p.current_phase = "Render" /\ p.scanline_cycle >= SCANLINE_END_CYCLE

\* the list `ls` is the selection the claim describes for PPU p: sprites from
\* OAMADDR/4 upward that are on the scanline, in OAM order, the first eight
Selected(p, ls) ==
    /\ Len(ls) <= 8
    /\ \A k \in 1..Len(ls) : ls[k] \in (p.oam_addr \div 4)..63 /\ OnScanline(p, ls[k])
    /\ \A j, k \in 1..Len(ls) : j < k => ls[j] < ls[k]
    /\ \A i \in (p.oam_addr \div 4)..63 :
          OnScanline(p, i) /\ i \notin Elements(ls) => Len(ls) = 8 /\ i > ls[8]

\* C33, step part: the step ending a visible scanline selects the sprites and
\* sets the overflow bit when more than eight are on the scanline; no other
\* step changes the list
C33_EvalStep ==
    /\ EndsVisibleLine(bus.ppu) =>
          /\ Selected(bus.ppu, bus'.ppu.line_sprites)
          /\ Cardinality({i \in (bus.ppu.oam_addr \div 4)..63 : OnScanline(bus.ppu, i)}) > 8
                => get_status_flag(bus'.ppu, SpriteOverflow)
    /\ ~EndsVisibleLine(bus.ppu) => bus'.ppu.line_sprites = bus.ppu.line_sprites

\* the sprites read at the dot about to be stepped are among the (at most
\* eight) sprites selected
C33_DrawnFromList ==
    /\ Len(bus.ppu.line_sprites) <= 8
    /\ ConsultedSprites(bus.ppu, bus.cartridge, bus.overflow_checks)
          \subseteq Elements(bus.ppu.line_sprites)

\* C33: sprite evaluation at the end of each visible scanline walks OAM from
\* index OAMADDR/4 upward and selects, in OAM order, the sprites with
\* 0 <= scanline - Y < sprite height (8 or 16 per PPUCTRL bit 5); the list
\* never holds more than 8 sprites, the sprite-overflow bit is set when more
\* than eight of the sprites walked are in range, and sprites beyond the
\* eighth are never drawn.
C33_SpriteEvaluation == []C33_DrawnFromList /\ [][C33_EvalStep]_vars

\* nine or more sprites from OAM index 2 upward were on scanline 0: the first
\* eight are listed and the overflow bit is set
C33_Witness ==
    /\ bus.ppu.oam_addr = 9
    /\ bus.ppu.line_sprites = <<2, 3, 4, 5, 6, 7, 8, 9>>
    /\ get_status_flag(bus.ppu, SpriteOverflow)
    /\ bus.ppu.current_phase = "Render" /\ bus.ppu.scanline = 1
    /\ ConsultedSprites(bus.ppu, bus.cartridge, bus.overflow_checks) # {}

\* ------------------------------------------------------------------------
\* SpecLeftover: one frame and the start of the next, in a build with and in
\* a build without overflow checks, with a cartridge load during rendering
\* ------------------------------------------------------------------------
\* cartridge loads explored
MaxLeftoverLoads == 1
\* the last scanline stepped in the second frame and after a load
LastLeftoverLine == 1

InitLeftover ==
    /\ \E layout \in {"zero", "bottom"}, overflow_checks \in BOOLEAN :
          bus = [BusLoadCartridge(BusInit, Mapper0(Cartridge(1, 1, "Horizontal")))
                   EXCEPT !.overflow_checks = overflow_checks,
                          !.ppu =
                       LET Written(writes) == WriteRegistersFrom(@, writes, 0, Len(writes))
                       IN Written(SpriteSetup(layout, 0, 0, 30))]
    /\ emu = EmuLoaded
    /\ ui = UiInit
    /\ watch = WatchInit

\* Bus::tick_ppu, one dot; the observer keeps OAM as the evaluation saw it
LeftoverTick ==
    /\ ~bus.panicked
    /\ ~(/\ bus.ppu.current_phase = "Render" /\ bus.ppu.scanline > LastLeftoverLine
         /\ (~bus.ppu.even_frame \/ watch.loads > 0))
    /\ bus' = TickDot(bus)
    /\ watch' = [watch EXCEPT !.op = "dot",
                              !.eval_oam = IF EndsVisibleLine(bus.ppu) /\ ~bus'.panicked
                                           THEN bus.ppu.oam_ram ELSE @]
    /\ UNCHANGED <<emu, ui>>

\* Bus::load_cartridge before the first pixel of visible scanline 1
LeftoverLoad ==
    /\ watch.loads < MaxLeftoverLoads
    /\ ~bus.panicked
    /\ bus.ppu.current_phase = "Render" /\ bus.ppu.scanline = 1 /\ bus.ppu.scanline_cycle = 1
    /\ bus' = BusLoadCartridge(bus, Mapper0(Cartridge(1, 1, "Horizontal")))
    /\ watch' = [watch EXCEPT !.op = "reset", !.loads = @ + 1]
    /\ UNCHANGED <<emu, ui>>

\* Bus::write of 0x2001 right after the load: rendering is enabled again
LeftoverMask ==
    /\ watch.op = "reset"
    /\ bus' = BusWrite(bus, 8193, 30)
    /\ watch' = [watch EXCEPT !.op = "write", !.last_addr = 8193, !.last_val = 30]
    /\ UNCHANGED <<emu, ui>>

NextLeftover == LeftoverTick \/ LeftoverLoad \/ LeftoverMask

SpecLeftover == InitLeftover /\ [][NextLeftover]_vars

\* the row of sprite i that scanline y shows is inside the sprite
RowInSprite(p, i) ==
    /\ 0 <= p.scanline - (Get(p.oam_ram, i * 4) + 1)
    /\ p.scanline - (Get(p.oam_ram, i * 4) + 1) < (IF BitAnd(p.control, 32) # 0 THEN 16 ELSE 8)

\* C40: with OAM as the last sprite evaluation saw it, every sprite consulted
\* at a dot of visible scanline y satisfies 0 <= y - (Y + 1) < sprite height,
\* so the row offset is computed without unsigned underflow; the list built
\* at the end of scanline 239, or left over from before a reset, is not used
\* to draw scanline 0.
C40_ConsultedRowInSprite ==
    bus.ppu.oam_ram = watch.eval_oam =>
        \A i \in ConsultedSprites(bus.ppu, bus.cartridge, bus.overflow_checks) :
            RowInSprite(bus.ppu, i)

\* the conditions the claim puts on a dot (x, scanline) of PPU p at which the
\* sprite-zero-hit bit may be set, but for the one on x = 255
HitPermitted(p, m) ==
    LET x == p.scanline_cycle - 1
        Opaque(sprite, bg) == sprite.covers /\ sprite.color # 0 /\ bg.color # 0
    IN /\ p.current_phase = "Render"
       /\ x \in 0..(SCREEN_WIDTH - 1) /\ p.scanline \in 0..(SCREEN_HEIGHT - 1)
       /\ get_mask_flag(p, ShowBackground) /\ get_mask_flag(p, ShowSprites)
       /\ x >= 8 \/ (get_mask_flag(p, ShowEdgeBG) /\ get_mask_flag(p, ShowEdgeSprites))
       /\ 0 \in Elements(p.line_sprites)
       /\ Opaque(SpritePixel(p, m, 0, x, p.scanline),
                 BackgroundPixel(p, m, (p.scroll_x + x) % 8))

\* the step sets the sprite-zero-hit bit
SetsSpriteZeroHit ==
    ~get_status_flag(bus.ppu, SpriteZeroHit) /\ get_status_flag(bus'.ppu, SpriteZeroHit)

\* C32, step part
C32_HitStep ==
    SetsSpriteZeroHit =>
        /\ watch'.op = "dot"
        /\ HitPermitted(bus.ppu, bus.cartridge)
        /\ bus.ppu.scanline_cycle - 1 # 255

\* C32: the sprite-zero-hit bit is set at a visible dot only if sprite 0
\* produces a non-transparent pixel there, the background pixel computed for
\* the same dot is non-transparent, background and sprite rendering are both
\* enabled and neither left-edge mask hides the pixel (x >= 8 or both
\* edge-show bits set); it is never set at x = 255.
C32_SpriteZeroHit == [][C32_HitStep]_vars

====
